---- MODULE Spec2Model ----
(***************************************************************************)
(* A model of hdnode, a signing proxy in front of an Ethereum JSON-RPC     *)
(* node: the JSON-RPC codec (src/src/jsonrpc.rs), the dispatcher           *)
(* (src/src/node.rs), the transaction filler (src/src/node/transaction.rs) *)
(* with the batched client (src/src/node/eth.rs) and the signer stack      *)
(* (src/src/signer/*.rs).                                                  *)
(*                                                                         *)
(* Specifications:                                                         *)
(*   SpecCodec  the Response encoder and decoder applied to bounded inputs *)
(*   Spec       the HTTP handler: one client payload at a time, muxed,     *)
(*              filled and signed locally or forwarded upstream            *)
(*   SpecFills  transaction requests handled concurrently: their fills     *)
(*              share the chain ID cache and interleave at the await of    *)
(*              batch.execute()                                            *)
(*   SpecFill   one fill, for every combination of the optional members of *)
(*              its request and every outcome of the calls of its batch    *)
(*   SpecEth    the client of node/eth.rs: one Batch with its handles, and *)
(*              direct calls of chain_id, around the chain ID cache        *)
(*   SpecValidator  signing calls that reach the Validator from several    *)
(*              handler threads at once, with the scheduler's fairness     *)
(***************************************************************************)
EXTENDS Integers, Sequences, FiniteSets, TLC

VARIABLES
    \* ---- codec (SpecCodec) ----
    codec_pc,         \* "value" | "wire" | "decoded" | "off"
    codec_value,      \* Option<Response>: the value handed to Serialize
    codec_wire,       \* Option<wire object>: the JSON text on the wire
    codec_decoded,    \* Option<Result<Response, decode error>>
    \* ---- process configuration and long-lived state (Spec) ----
    validator,        \* Config.validator is Some(path): Validator(LogRecorder(Wallet))
    debug_assertions, \* build profile: debug_assert! and overflow checks compiled in
    lua,              \* Validator.lua, a Mutex: Option<the call holding the guard>
    chain_id_cache,   \* ChainIdCache: Option<U256>
    \* ---- one run of the HTTP handler (Spec) ----
    pc,               \* "idle" | "mux" | "done" | "panicked" | "off"
    input,            \* the Input being handled
    outcomes,         \* Outcome of mux for the elements classified so far
    upstream,         \* HTTP calls made to the remote node, in order
    remote_reply,     \* Option<body read back by the forwarding call>
    remote_result,    \* Option<Result of the forwarding execute / execute_many>
    signer_calls,     \* calls made to the signers of the stack, in order
    signatures,       \* signatures the Wallet produced, in order
    log,              \* log records written, in order
    output,           \* Option<Output> sent back to the client
    \* ---- transaction requests in flight at once (SpecFills) ----
    fills             \* per request: where its fill is and what it holds

codec_vars == <<codec_pc, codec_value, codec_wire, codec_decoded>>
config_vars == <<validator, debug_assertions, lua>>
node_vars == <<chain_id_cache, pc, input, outcomes, upstream, remote_reply, remote_result,
               signer_calls, signatures, log, output>>
fill_vars == <<fills>>
vars == <<codec_vars, config_vars, node_vars, fill_vars>>

(***************************************************************************)
(* Option<T> and Result<T, E>                                              *)
(***************************************************************************)
None == <<>>
Some(v) == <<v>>
IsSome(o) == Len(o) > 0
IsNone(o) == Len(o) = 0
Unwrap(o) == o[1]

Ok(v) == [ok |-> TRUE, value |-> v]
Err(e) == [ok |-> FALSE, error |-> e]

(***************************************************************************)
(* JSON on the wire.  A member of a JSON object is absent, present with    *)
(* the value null, or present with another value.  serde_json::Value is    *)
(* JNull or Val(v).                                                        *)
(***************************************************************************)
Absent == [m |-> "absent"]
JNull == [m |-> "null"]
Val(v) == [m |-> "value", v |-> v]

\* Payloads of non-null JSON values used as results and error data.
Quantity(n) == [t |-> "quantity", n |-> n]
Text(s) == [t |-> "string", s |-> s]

(***************************************************************************)
(* jsonrpc.rs: Id, Error, Response                                         *)
(***************************************************************************)
V2 == "2.0"

\* Id::Number(1), Id::Number(2), Id::String("1") and Id::Null as JSON text.
IdNull == "null"
Ids == {"1", "2", "\"1\"", IdNull}

invalid_params == [code |-> -32602, message |-> "Invalid params", data |-> None]
internal_error == [code |-> -32603, message |-> "Internal error", data |-> None]

Response(result, id) == [jsonrpc |-> V2, result |-> result, id |-> id]

\* impl Serialize for Id (untagged): Null is the JSON null.
SerializeId(id) == IF id = IdNull THEN JNull ELSE Val(id)

\* impl Deserialize for Id (untagged: String, Number, Null); a missing member
\* is an error because Id is not an Option.
DeserializeId(member) ==
    CASE member.m = "absent" -> Err("missing field id")
      [] member.m = "null" -> Ok(IdNull)
      [] OTHER -> Ok(member.v)

\* #[derive(Serialize)] for Option<T> with skip_serializing_if = "Option::is_none":
\* None is left out, Some(v) is written as v (also when v is null).
SerializeOption(o) == IF IsNone(o) THEN Absent ELSE Unwrap(o)

\* serde's Deserialize for Option<T>: a missing member and a null both give None.
DeserializeOption(member) ==
    IF member.m \in {"absent", "null"} THEN None ELSE Some(member)

\* #[derive(Serialize)] for Error.
SerializeError(e) ==
    Val([code |-> e.code, message |-> e.message, data |-> SerializeOption(e.data)])

\* #[derive(Deserialize)] for Error, given the error member's JSON object.
DeserializeError(obj) ==
    [code |-> obj.code, message |-> obj.message, data |-> DeserializeOption(obj.data)]

\* impl Serialize for Response: through Res, exactly one arm is Some.
Serialize(r) ==
    LET result == IF r.result.ok THEN Some(r.result.value) ELSE None
        error == IF r.result.ok THEN None ELSE Some(SerializeError(r.result.error))
    IN [jsonrpc |-> Val(r.jsonrpc),
        result |-> SerializeOption(result),
        error |-> SerializeOption(error),
        id |-> SerializeId(r.id)]

\* impl Deserialize for Response: Res::deserialize, then the match on
\* (res.result, res.error).
Deserialize(w) ==
    LET result == DeserializeOption(w.result)
        error == DeserializeOption(w.error)
        id == DeserializeId(w.id)
    IN CASE w.jsonrpc /= Val(V2) -> Err("invalid jsonrpc")
         [] ~id.ok -> Err(id.error)
         [] IsSome(result) /\ IsNone(error) ->
                Ok(Response(Ok(Unwrap(result)), id.value))
         [] IsNone(result) /\ IsSome(error) ->
                Ok(Response(Err(DeserializeError(Unwrap(error).v)), id.value))
         [] IsSome(result) /\ IsSome(error) -> Err("both result and error specified")
         [] OTHER -> Err("missing result or error")

(***************************************************************************)
(* SpecCodec: Serialize and Deserialize applied to bounded inputs.         *)
(***************************************************************************)
\* serde_json::Value payloads: null and two others.
Values == {JNull, Val(Quantity(16)), Val(Text("0xabc"))}

ErrorCodes == {-32000, -32603, 3}

Errors == [code : ErrorCodes, message : {"boom"}, data : {None} \cup {Some(v) : v \in Values}]

Results == {Ok(v) : v \in Values} \cup {Err(e) : e \in Errors}

Responses == {Response(res, id) : res \in Results, id \in Ids}

WireErrors ==
    {Absent, JNull} \cup
    {Val([code |-> c, message |-> "boom", data |-> d]) :
        c \in ErrorCodes, d \in {Absent, JNull, Val(Text("0xabc"))}}

WireResponses ==
    [jsonrpc : {Absent, Val(V2), Val("1.0")},
     result : {Absent} \cup Values,
     error : WireErrors,
     id : {Absent} \cup {SerializeId(id) : id \in Ids}]


(***************************************************************************)
(* signer/wallet.rs: Wallet.  hdk::derive_index(seed, i) is private key i; *)
(* PrivateKey::address is an injective map from keys to addresses.         *)
(***************************************************************************)
\* Config.account_count
AccountCount == 2

AddressBook == <<"0xA0", "0xA1", "0xA2", "0xA3">>

\* An address no key of the wallet derives.
Stranger == "0xEE"

PrivateKey(i) == [index |-> i]

address(key) == AddressBook[key.index + 1]

\* Wallet::new: private_keys = (0..count).map(derive_index).
private_keys == [i \in 1..AccountCount |-> PrivateKey(i - 1)]

\* A wallet that lists its addresses last derived first.
MutWalletAddressesReversed ==
    [i \in 1..AccountCount |-> address(private_keys[AccountCount + 1 - i])]

\* Wallet.addresses: private_keys.iter().map(|key| key.address()).collect()
WalletAddresses == [i \in 1..AccountCount |-> address(private_keys[i])]

\* Wallet.accounts: HashMap from address to private key.
WalletAccounts ==
    [a \in {address(private_keys[i]) : i \in 1..AccountCount} |->
        CHOOSE key \in {private_keys[i] : i \in 1..AccountCount} : address(key) = a]

\* PrivateKey::sign(signing_message): the signature is a function of the key
\* and the digest; it can be verified against the key's address.
PrivateKeySign(key, digest) == [signer |-> address(key), digest |-> digest]

\* EthereumMessage(..).signing_message(), Transaction::signing_message()
\* (of the inner transaction, through Deref) and
\* TypedData::signing_message(): the 32-byte digest of what is signed.
signing_message(kind, data) ==
    [kind |-> kind, data |-> IF kind = "signed transaction" THEN data.inner ELSE data]

UnknownSignerError(account) == [kind |-> "UnknownSignerError", account |-> account]
Anyhow(msg) == [kind |-> "anyhow", msg |-> msg]

\* Wallet::sign
WalletSign(account, digest) ==
    IF account \in DOMAIN WalletAccounts
    THEN Ok(PrivateKeySign(WalletAccounts[account], digest))
    ELSE Err(UnknownSignerError(account))

(***************************************************************************)
(* The signer stack of main.rs init: LogRecorder(Wallet), wrapped in       *)
(* Validator when Config.validator is set.  A signing call returns its     *)
(* Result together with what it did: the signatures the Wallet produced    *)
(* and the log records written.                                            *)
(***************************************************************************)
Effects(result, signed, logged) ==
    [result |-> result, signed |-> signed, logged |-> logged, trace |-> <<>>]

\* A call of a signer of the stack; hook is what the policy hook did when
\* the Validator called it.
SignerCall(signer, call, hook) == [signer |-> signer, call |-> call, hook |-> hook]

\* The effects of a call that went through the signers listed first.
Traced(calls, effects) == [effects EXCEPT !.trace = calls \o @]

\* A LogRecorder that writes the key that signed into its record.
MutLogRecorderSignLogsKey(kind, account, data) ==
    LET signature == WalletSign(account, signing_message(kind, data))
    IN Traced(<<SignerCall("LogRecorder", kind, None), SignerCall("Wallet", kind, None)>>,
              IF signature.ok
              THEN Effects(signature, <<signature.value>>,
                           <<[level |-> "info", message |-> kind, account |-> account,
                              data |-> data, signature |-> signature.value,
                              key |-> WalletAccounts[account]]>>)
              ELSE Effects(signature, <<>>, <<>>))

\* A LogRecorder that writes its record for every attempt.
MutLogRecorderSignLogsAttempt(kind, account, data) ==
    LET signature == WalletSign(account, signing_message(kind, data))
    IN Traced(<<SignerCall("LogRecorder", kind, None), SignerCall("Wallet", kind, None)>>,
              Effects(signature,
                      IF signature.ok THEN <<signature.value>> ELSE <<>>,
                      <<[level |-> "info", message |-> kind, account |-> account,
                         data |-> data, signature |-> signature]>>))

\* impl Signing for LogRecorder: delegate, and log on success only.
LogRecorderSign(kind, account, data) ==
    LET signature == WalletSign(account, signing_message(kind, data))
    IN Traced(<<SignerCall("LogRecorder", kind, None), SignerCall("Wallet", kind, None)>>,
              IF signature.ok
              THEN Effects(signature, <<signature.value>>,
                           <<[level |-> "info", message |-> kind, account |-> account,
                              data |-> data, signature |-> signature.value]>>)
              ELSE Effects(signature, <<>>, <<>>))

\* What a policy hook does when called: returns true or false, is not
\* defined by the module, or raises an error in the engine.
HookOutcomes == {"true", "false", "missing", "error"}

\* Validator::validate
Validate(name, hook) ==
    CASE hook = "missing" -> Err(Anyhow("missing handler in module"))
      [] hook = "error" -> Err(Anyhow("lua error"))
      [] hook = "false" -> Err(Anyhow("handler denied signature"))
      [] OTHER -> Ok("validated")

\* A Validator that asks the hook and delegates whatever it says.
MutValidatorSignIgnoresVerdict(kind, account, data, hook) ==
    Traced(<<SignerCall("Validator", kind, Some(hook))>>,
           LogRecorderSign(kind, account, data))

\* impl Signing for Validator: validate, then delegate.
ValidatorSign(kind, account, data, hook) ==
    Traced(<<SignerCall("Validator", kind, Some(hook))>>,
           IF Validate(kind, hook).ok THEN LogRecorderSign(kind, account, data)
           ELSE Effects(Validate(kind, hook), <<>>, <<>>))

\* BoxSigner::sign_message / sign_transaction / sign_typed_data
SignerSign(kind, account, data, hook) ==
    IF validator THEN ValidatorSign(kind, account, data, hook)
    ELSE LogRecorderSign(kind, account, data)

\* BoxSigner::accounts: every decorator forwards to Wallet.addresses.
SignerAccounts == WalletAddresses

\* impl From<anyhow::Error> for jsonrpc::Error
ErrorFromAnyhow(err) ==
    IF err.kind = "UnknownSignerError" THEN invalid_params ELSE internal_error

\* tracing::debug!(%err, "encountered error") of the conversion above.
Encountered(err) == [level |-> "debug", message |-> "encountered error", err |-> err]


(***************************************************************************)
(* jsonrpc.rs: Request and Client.  What the remote node sends back to an  *)
(* HTTP POST is a reply: no usable body (connection error, or a body that  *)
(* is not JSON of the expected shape), one response object, or an array of *)
(* response objects.                                                       *)
(***************************************************************************)
Request(method, params, id) ==
    [jsonrpc |-> V2, method |-> method, params |-> params, id |-> id]

\* Params::Array(items)
Array(items) == [kind |-> "Array", items |-> items]
\* Params::Object(map)
Object(map) == [kind |-> "Object", map |-> map]

Failure == [kind |-> "failure"]
ReplyResponse(w) == [kind |-> "response", response |-> w]
ReplyBatch(ws) == [kind |-> "batch", responses |-> ws]

\* Client::execute -> Inner::post::<Request, Response>
Execute(request, reply) ==
    IF reply.kind /= "response" THEN Err("ClientError")
    ELSE LET decoded == Deserialize(reply.response)
         IN IF decoded.ok THEN Ok(decoded.value) ELSE Err("ClientError::Json")

\* Client::execute_many -> Inner::post::<Vec<Request>, Vec<Response>>: the
\* body must parse as an array of responses; nothing else is checked.
ExecuteMany(requests, reply) ==
    IF reply.kind /= "batch" THEN Err("ClientError")
    ELSE LET decoded == [i \in 1..Len(reply.responses) |-> Deserialize(reply.responses[i])]
         IN IF \E i \in 1..Len(decoded) : ~decoded[i].ok
            THEN Err("ClientError::Json")
            ELSE Ok([i \in 1..Len(decoded) |-> decoded[i].value])

(***************************************************************************)
(* serialization.rs: Quantity is a U256.  The model scales the width down: *)
(* U256Bits stands for 256.                                                *)
(***************************************************************************)
U256Bits == 4
U256Modulus == 2 ^ U256Bits
U256Max == U256Modulus - 1

Panic(msg) == Err([kind |-> "panic", msg |-> msg])
IsPanic(result) == ~result.ok /\ result.error.kind = "panic"

\* base_fee * 2 + max_priority_fee_per_gas on U256: the operators check for
\* overflow in a build with debug assertions and wrap in one without.
Mul2Add(base_fee, priority) ==
    LET exact == base_fee * 2 + priority
    IN IF exact <= U256Max THEN Ok(exact)
       ELSE IF debug_assertions THEN Panic("attempt to multiply with overflow")
       ELSE Ok(exact % U256Modulus)

\* impl Deserialize for Quantity, from a response's result value.
DeserializeQuantity(value) ==
    IF value.m = "value" /\ value.v.t = "quantity" THEN Ok(value.v.n)
    ELSE Err(Anyhow("json"))

\* #[derive(Deserialize)] for FeeHistory, from a response's result value.
FeeHistory(base_fee_per_gas) == [t |-> "feeHistory", baseFeePerGas |-> base_fee_per_gas]

DeserializeFeeHistory(value) ==
    IF value.m = "value" /\ value.v.t = "feeHistory" THEN Ok(value.v)
    ELSE Err(Anyhow("json"))

(***************************************************************************)
(* node/transaction.rs: TransactionRequest                                 *)
(***************************************************************************)
\* The members #[derive(Deserialize)] accepts (deny_unknown_fields).
TransactionRequestFields ==
    {"from", "to", "gas", "gasPrice", "maxFeePerGas", "maxPriorityFeePerGas",
     "value", "data", "nonce", "accessList", "chainId"}

Member(obj, name) == IF name \in DOMAIN obj THEN Some(obj[name]) ELSE None

\* #[derive(Deserialize)] for TransactionRequest, from a JSON object given
\* as a record of its members.
DeserializeTransactionRequest(obj) ==
    IF ~(DOMAIN obj \subseteq TransactionRequestFields) THEN Err("unknown field")
    ELSE IF "from" \notin DOMAIN obj THEN Err("missing field from")
    ELSE Ok([from |-> obj.from,
             to |-> Member(obj, "to"),
             gas |-> Member(obj, "gas"),
             gas_price |-> Member(obj, "gasPrice"),
             max_fee_per_gas |-> Member(obj, "maxFeePerGas"),
             max_priority_fee_per_gas |-> Member(obj, "maxPriorityFeePerGas"),
             value |-> IF "value" \in DOMAIN obj THEN obj.value ELSE 0,
             data |-> IF "data" \in DOMAIN obj THEN obj.data ELSE "0x",
             nonce |-> Member(obj, "nonce"),
             access_list |-> Member(obj, "accessList"),
             chain_id |-> Member(obj, "chainId")])

(***************************************************************************)
(* node/eth.rs: Batch, as TransactionRequest::fill uses it.  The queue is  *)
(* the sequence of methods enqueued; prepare numbers the requests from the *)
(* static ID counter, which the model counts from the batch's first call.  *)
(***************************************************************************)
BatchIds == <<"101", "102", "103", "104", "105", "106">>

\* prepare(method, params): params are not modelled beyond the method.
prepare(method, k) == Request(method, Some(Array(<<>>)), BatchIds[k])

OptionalCall(wanted, method) == IF wanted THEN <<method>> ELSE <<>>

\* The gas parameters a request may not combine.
GasConflict(tx) ==
    IsSome(tx.gas_price)
        /\ (IsSome(tx.max_fee_per_gas) \/ IsSome(tx.max_priority_fee_per_gas))

\* A fill that asks for the gas price, the base fee and the priority fee
\* whenever the request supplies no gasPrice.
MutFillQueueAllFees(tx, cache) ==
    OptionalCall(IsNone(cache), "eth_chainId")
        \o <<"eth_getTransactionCount">>
        \o OptionalCall(IsNone(tx.gas), "eth_estimateGas")
        \o OptionalCall(IsNone(tx.gas_price), "eth_gasPrice")
        \o OptionalCall(IsNone(tx.gas_price), "eth_feeHistory")
        \o OptionalCall(IsNone(tx.gas_price), "eth_maxPriorityFeePerGas")

\* The calls fill enqueues before batch.execute(), in order.
FillQueue(tx, cache) ==
    OptionalCall(IsNone(cache), "eth_chainId")
        \o <<"eth_getTransactionCount">>
        \o OptionalCall(IsNone(tx.gas), "eth_estimateGas")
        \o OptionalCall(IsNone(tx.gas_price) /\ IsNone(tx.max_fee_per_gas)
                            /\ IsNone(tx.max_priority_fee_per_gas), "eth_gasPrice")
        \o OptionalCall(IsNone(tx.gas_price) /\ IsNone(tx.max_fee_per_gas),
                        "eth_feeHistory")
        \o OptionalCall(IsNone(tx.gas_price) /\ IsNone(tx.max_priority_fee_per_gas),
                        "eth_maxPriorityFeePerGas")

IndexOf(queue, method) == CHOOSE k \in 1..Len(queue) : queue[k] = method

\* Batch::execute zips the channels with the responses in order; Batch::call
\* then reads the channel: a dropped channel and an RPC error are errors.
BatchCall(queue, responses, method) ==
    LET k == IndexOf(queue, method)
    IN IF k > Len(responses) THEN Err(Anyhow("channel closed"))
       ELSE IF ~responses[k].result.ok THEN Err(Anyhow("rpc error"))
       ELSE Ok(responses[k].result.value)

\* Batch::get_transaction_count, estimate_gas, gas_price,
\* max_priority_fee_per_gas and the call of Batch::chain_id
BatchQuantity(queue, responses, method) ==
    LET value == BatchCall(queue, responses, method)
    IN IF value.ok THEN DeserializeQuantity(value.value) ELSE value

\* Batch::base_fee: base_fee_per_gas[1] of the fee history.
BatchBaseFee(queue, responses) ==
    LET value == BatchCall(queue, responses, "eth_feeHistory")
        history == DeserializeFeeHistory(value.value)
    IN IF ~value.ok THEN value
       ELSE IF ~history.ok THEN history
       ELSE IF Len(history.value.baseFeePerGas) < 2 THEN Panic("index out of bounds")
       ELSE Ok(history.value.baseFeePerGas[2])

(***************************************************************************)
(* node/transaction.rs: Transaction::from_args and TransactionRequest::fill*)
(***************************************************************************)
Transaction(args, inner) == [args |-> args, inner |-> inner]

\* A match that does not look at the access list.
MutTransactionTypeIgnoresAccessList(args) ==
    IF IsSome(args.max_fee_per_gas) THEN "Eip1559" ELSE "Legacy"

\* Transaction::from_args: the match on (&args.max_fee_per_gas,
\* &args.access_list).
TransactionType(args) ==
    IF IsSome(args.max_fee_per_gas) THEN "Eip1559"
    ELSE IF IsSome(args.access_list) THEN "Eip2930"
    ELSE "Legacy"

\* Transaction::from_args: the type is chosen on (max_fee_per_gas,
\* access_list); unwrap() of a field that is None panics.
from_args(args) ==
    LET type == TransactionType(args)
        missing ==
            \/ IsNone(args.chain_id) \/ IsNone(args.nonce) \/ IsNone(args.gas)
            \/ type = "Eip1559" /\ IsNone(args.max_priority_fee_per_gas)
            \/ type /= "Eip1559" /\ IsNone(args.gas_price)
    IN IF missing THEN Panic("called Option::unwrap() on a None value")
       ELSE Ok(Transaction(args,
            CASE type = "Eip1559" ->
                    [type |-> type,
                     chain_id |-> Unwrap(args.chain_id),
                     nonce |-> Unwrap(args.nonce),
                     max_priority_fee_per_gas |-> Unwrap(args.max_priority_fee_per_gas),
                     max_fee_per_gas |-> Unwrap(args.max_fee_per_gas),
                     gas_limit |-> Unwrap(args.gas),
                     to |-> args.to, value |-> args.value, data |-> args.data,
                     access_list |-> IF IsSome(args.access_list)
                                     THEN Unwrap(args.access_list) ELSE <<>>]
              [] type = "Eip2930" ->
                    [type |-> type,
                     chain_id |-> Unwrap(args.chain_id),
                     nonce |-> Unwrap(args.nonce),
                     gas_price |-> Unwrap(args.gas_price),
                     gas_limit |-> Unwrap(args.gas),
                     to |-> args.to, value |-> args.value, data |-> args.data,
                     access_list |-> IF IsSome(args.access_list)
                                     THEN Unwrap(args.access_list) ELSE <<>>]
              [] OTHER ->
                    [type |-> type,
                     nonce |-> Unwrap(args.nonce),
                     gas_price |-> Unwrap(args.gas_price),
                     gas_limit |-> Unwrap(args.gas),
                     to |-> args.to, value |-> args.value, data |-> args.data,
                     chain_id |-> Some(Unwrap(args.chain_id))]))

(***************************************************************************)
(* The remote node, as Inner::post sees it: how it answers the body of one *)
(* HTTP POST.  It is down (or answers with something that is no JSON-RPC   *)
(* response), or answers every request: honestly and in order, in reverse  *)
(* order, leaving the last answer out, adding an answer nobody asked for,  *)
(* with the result null, or with an RPC error.  A node may also be "brief":*)
(* honest, but its fee history covers a single block.                      *)
(***************************************************************************)
RemoteNodes == {"down", "honest", "reversed", "short", "long", "null", "error"}

\* The result an Ethereum node gives to a call of the method.
Answer(method) ==
    CASE method = "eth_chainId" -> Val(Quantity(1))
      [] method = "eth_getTransactionCount" -> Val(Quantity(5))
      [] method = "eth_estimateGas" -> Val(Quantity(9))
      [] method = "eth_gasPrice" -> Val(Quantity(2))
      [] method = "eth_feeHistory" -> Val(FeeHistory(<<3, 4>>))
      [] method = "eth_maxPriorityFeePerGas" -> Val(Quantity(2))
      [] method = "eth_sendRawTransaction" -> Val(Text("0xhash"))
      [] OTHER -> Val(Quantity(7))

ExecutionError == Val([code |-> -32000, message |-> "execution error", data |-> Absent])

\* The response object the node writes for one request.
RemoteResponse(node, request) ==
    [jsonrpc |-> Val(V2),
     result |-> CASE node = "null" -> JNull
                  [] node = "error" -> Absent
                  [] node = "brief" /\ request.method = "eth_feeHistory" ->
                        Val(FeeHistory(<<3>>))
                  [] OTHER -> Answer(request.method),
     error |-> IF node = "error" THEN ExecutionError ELSE Absent,
     id |-> SerializeId(request.id)]

\* A response to a request that was never sent.
StrayResponse ==
    [jsonrpc |-> Val(V2), result |-> Val(Quantity(7)), error |-> Absent, id |-> Val("99")]

Reverse(seq) == [k \in 1..Len(seq) |-> seq[Len(seq) + 1 - k]]

\* The body read back by Inner::post::<Request, Response>.
RemoteReply(node, request) ==
    IF node = "down" THEN Failure ELSE ReplyResponse(RemoteResponse(node, request))

\* The body read back by Inner::post::<Vec<Request>, Vec<Response>>.
RemoteBatchReply(node, requests) ==
    LET answers == [k \in 1..Len(requests) |-> RemoteResponse(node, requests[k])]
    IN CASE node = "down" -> Failure
         [] node = "reversed" -> ReplyBatch(Reverse(answers))
         [] node = "short" -> ReplyBatch(SubSeq(answers, 1, Len(answers) - 1))
         [] node = "long" -> ReplyBatch(Append(answers, StrayResponse))
         [] OTHER -> ReplyBatch(answers)

FillResult(result, cache, calls) == [result |-> result, cache |-> cache, calls |-> calls]

\* Whether fill enqueued a call of the method.
Enqueued(queue, method) == method \in {queue[k] : k \in 1..Len(queue)}

\* A first arm that leaves the request as it is when the base fee or the
\* priority fee is not to be had.
MutFillFeesWithoutFallback(tx, gas_price, base_fee, priority) ==
    IF IsPanic(base_fee) THEN base_fee
    ELSE IF base_fee.ok /\ priority.ok /\ Mul2Add(base_fee.value, priority.value).ok
    THEN Ok([tx EXCEPT
               !.max_fee_per_gas = Some(Mul2Add(base_fee.value, priority.value).value),
               !.max_priority_fee_per_gas = Some(priority.value)])
    ELSE Ok(tx)

\* The match on (gas_price, base_fee, max_priority_fee_per_gas), first arm:
\* prefer EIP-1559 gas pricing, fall back to legacy gas pricing.
FillFeesPreferLondon(tx, gas_price, base_fee, priority) ==
    IF IsPanic(base_fee) THEN base_fee
    ELSE IF base_fee.ok /\ priority.ok
    THEN IF ~Mul2Add(base_fee.value, priority.value).ok
         THEN Mul2Add(base_fee.value, priority.value)
         ELSE Ok([tx EXCEPT
                    !.max_fee_per_gas = Some(Mul2Add(base_fee.value, priority.value).value),
                    !.max_priority_fee_per_gas = Some(priority.value)])
    ELSE IF ~gas_price.ok THEN gas_price
    ELSE Ok([tx EXCEPT !.gas_price = Some(gas_price.value)])

\* Second arm, its third step: max_fee_per_gas from the base fee and the
\* priority fee the request holds by now.
FillFeesMaxFee(tx, wants_base_fee, base_fee) ==
    IF ~wants_base_fee THEN Ok(tx)
    ELSE IF ~base_fee.ok THEN base_fee
    ELSE IF IsNone(tx.max_priority_fee_per_gas)
    THEN Panic("called Option::unwrap() on a None value")
    ELSE IF ~Mul2Add(base_fee.value, Unwrap(tx.max_priority_fee_per_gas)).ok
    THEN Mul2Add(base_fee.value, Unwrap(tx.max_priority_fee_per_gas))
    ELSE Ok([tx EXCEPT !.max_fee_per_gas =
                Some(Mul2Add(base_fee.value, Unwrap(tx.max_priority_fee_per_gas)).value)])

\* Second arm, its second step: the priority fee.
FillFeesPriority(tx, wants_priority, priority, wants_base_fee, base_fee) ==
    IF ~wants_priority THEN FillFeesMaxFee(tx, wants_base_fee, base_fee)
    ELSE IF ~priority.ok THEN priority
    ELSE FillFeesMaxFee([tx EXCEPT !.max_priority_fee_per_gas = Some(priority.value)],
                        wants_base_fee, base_fee)

\* Second arm, its first step: the gas price.
FillFeesEach(tx, wants_gas_price, gas_price, wants_priority, priority, wants_base_fee, base_fee) ==
    IF ~wants_gas_price
    THEN FillFeesPriority(tx, wants_priority, priority, wants_base_fee, base_fee)
    ELSE IF ~gas_price.ok THEN gas_price
    ELSE FillFeesPriority([tx EXCEPT !.gas_price = Some(gas_price.value)],
                          wants_priority, priority, wants_base_fee, base_fee)

\* The gas pricing part of fill, after chain ID, nonce and gas are set.
FillFees(tx, queue, responses) ==
    IF Enqueued(queue, "eth_gasPrice") /\ Enqueued(queue, "eth_feeHistory")
        /\ Enqueued(queue, "eth_maxPriorityFeePerGas")
    THEN FillFeesPreferLondon(tx,
            BatchQuantity(queue, responses, "eth_gasPrice"),
            BatchBaseFee(queue, responses),
            BatchQuantity(queue, responses, "eth_maxPriorityFeePerGas"))
    ELSE FillFeesEach(tx,
            Enqueued(queue, "eth_gasPrice"),
            BatchQuantity(queue, responses, "eth_gasPrice"),
            Enqueued(queue, "eth_maxPriorityFeePerGas"),
            BatchQuantity(queue, responses, "eth_maxPriorityFeePerGas"),
            Enqueued(queue, "eth_feeHistory"),
            BatchBaseFee(queue, responses))

\* The end of fill: Ok((account, Transaction::from_args(self))).
FillFromArgs(account, transaction, cache, calls) ==
    IF ~transaction.ok THEN FillResult(transaction, cache, calls)
    ELSE FillResult(Ok([account |-> account, transaction |-> transaction.value]),
                    cache, calls)

\* fill once the gas limit is set: the gas pricing.
FillPricing(fees, cache, calls) ==
    IF ~fees.ok THEN FillResult(fees, cache, calls)
    ELSE FillFromArgs(fees.value.from, from_args(fees.value), cache, calls)

\* fill once the nonce is checked: the gas limit.
FillGas(tx, gas, cache, queue, responses, calls) ==
    IF IsSome(tx.gas) THEN FillPricing(FillFees(tx, queue, responses), cache, calls)
    ELSE IF ~gas.ok THEN FillResult(gas, cache, calls)
    ELSE FillPricing(FillFees([tx EXCEPT !.gas = Some(gas.value)], queue, responses),
                     cache, calls)

\* fill once the chain ID is checked: nonce.get_or_insert and its ensure!.
FillNonce(tx, nonce, cache, queue, responses, calls) ==
    IF ~nonce.ok THEN FillResult(nonce, cache, calls)
    ELSE IF IsSome(tx.nonce) /\ Unwrap(tx.nonce) /= nonce.value
    THEN FillResult(Err(Anyhow("only signing transactions for current nonce permitted")),
                    cache, calls)
    ELSE FillGas([tx EXCEPT !.nonce = Some(nonce.value)],
                 BatchQuantity(queue, responses, "eth_estimateGas"),
                 cache, queue, responses, calls)

\* A fill that takes the node's chain ID whatever the request names.
MutFillChainIdOverwrites(tx, chain_id, cache, queue, responses, calls) ==
    IF ~chain_id.ok THEN FillResult(chain_id, cache, calls)
    ELSE FillNonce([tx EXCEPT !.chain_id = Some(chain_id.value)],
                   BatchQuantity(queue, responses, "eth_getTransactionCount"),
                   Some(chain_id.value), queue, responses, calls)

\* fill once the batch is executed: the chain ID (which ChainIdCache::with
\* stores), chain_id.get_or_insert and its ensure!.
FillChainId(tx, chain_id, cache, queue, responses, calls) ==
    IF ~chain_id.ok THEN FillResult(chain_id, cache, calls)
    ELSE IF IsSome(tx.chain_id) /\ Unwrap(tx.chain_id) /= chain_id.value
    THEN FillResult(Err(Anyhow("chain ID used for signing does not match node")),
                    Some(chain_id.value), calls)
    ELSE FillNonce([tx EXCEPT !.chain_id = Some(chain_id.value)],
                   BatchQuantity(queue, responses, "eth_getTransactionCount"),
                   Some(chain_id.value), queue, responses, calls)

\* fill after batch.execute().await?
FillExecuted(tx, cache, queue, executed, calls) ==
    IF ~executed.ok THEN FillResult(Err(Anyhow("client error")), cache, calls)
    ELSE FillChainId(tx,
                     IF IsSome(cache) THEN Ok(Unwrap(cache))
                     ELSE BatchQuantity(queue, executed.value, "eth_chainId"),
                     cache, queue, executed.value, calls)

\* batch.execute() for the queue of fill, against a remote node.
FillBatch(tx, cache, queue, requests, node) ==
    FillExecuted(tx, cache, queue,
                 ExecuteMany(requests, RemoteBatchReply(node, requests)),
                 <<[kind |-> "execute_many", requests |-> requests]>>)

\* A fill that executes its batch without the check of the gas parameters.
MutFillUnchecked(tx, cache, node) ==
    FillBatch(tx, cache, FillQueue(tx, cache),
              [k \in 1..Len(FillQueue(tx, cache)) |-> prepare(FillQueue(tx, cache)[k], k)],
              node)

\* TransactionRequest::fill against a remote node: the Result, the chain ID
\* cache afterwards and the HTTP calls made.
Fill(tx, cache, node) ==
    IF GasConflict(tx)
    THEN FillResult(Err(Anyhow("specified both gas price and London gas parameters")),
                    cache, <<>>)
    ELSE FillBatch(tx, cache, FillQueue(tx, cache),
                   [k \in 1..Len(FillQueue(tx, cache)) |->
                       prepare(FillQueue(tx, cache)[k], k)],
                   node)

(***************************************************************************)
(* node.rs: Handled, Outcome, Node::mux_handler and Node::mux              *)
(***************************************************************************)
Internal(value) == [kind |-> "Internal", value |-> value]
Remote(method, params) == [kind |-> "Remote", method |-> method, params |-> params]

OutcomeInternal(response) == [kind |-> "Internal", response |-> response]
OutcomeRemote(request) == [kind |-> "Remote", request |-> request]

\* JSON values of parameters and results.
AddressItem(a) == [t |-> "address", a |-> a]
BytesItem(b) == [t |-> "bytes", b |-> b]
TypedDataItem(raw) == [t |-> "typedData", raw |-> raw]
ObjectItem(obj) == [t |-> "object", obj |-> obj]

(***************************************************************************)
(* node/typeddata.rs: TypedData.  raw is the JSON blob, of which the model *)
(* keeps the primary type and the chainId member of domain.                *)
(***************************************************************************)
JsonNumber(n) == Val([t |-> "number", n |-> n])
JsonString(chars) == Val([t |-> "string", chars |-> chars])
JsonBool(b) == Val([t |-> "bool", b |-> b])

RawTypedData(primary_type, chain_id) ==
    [primaryType |-> primary_type, domain |-> [chainId |-> chain_id]]

\* The digits of U256::from_str_radix, by value (digit k is Digits[k + 1]).
Digits == <<"0", "1", "2", "3", "4", "5", "6", "7", "8", "9",
            "a", "b", "c", "d", "e", "f">>

\* U256::from_str_radix(s, radix), s as the sequence of its characters:
\* an error for the empty string, a character that is no digit of the
\* radix, or a number that does not fit.
RECURSIVE FromStrRadixFrom(_, _, _)
FromStrRadixFrom(chars, radix, value) ==
    IF chars = <<>> THEN Ok(value)
    ELSE IF ~(\E d \in 1..radix : Digits[d] = Head(chars))
    THEN Err("invalid digit found in string")
    ELSE IF value * radix + (CHOOSE d \in 1..radix : Digits[d] = Head(chars)) - 1 > U256Max
    THEN Err("number too large to fit in target type")
    ELSE FromStrRadixFrom(Tail(chars), radix,
             value * radix + (CHOOSE d \in 1..radix : Digits[d] = Head(chars)) - 1)

from_str_radix(chars, radix) ==
    IF chars = <<>> THEN Err("cannot parse integer from empty string")
    ELSE FromStrRadixFrom(chars, radix, 0)

\* impl Deserialize for TypedData: the match on raw["domain"]["chainId"].
DeserializeChainId(member) ==
    IF member.m \in {"absent", "null"} THEN Ok(None)
    ELSE IF member.v.t = "number" /\ member.v.n >= 0 THEN Ok(Some(member.v.n))
    ELSE IF member.v.t = "string"
    THEN LET chars == member.v.chars
             parsed == IF Len(chars) >= 2 /\ chars[1] = "0" /\ chars[2] = "x"
                       THEN from_str_radix(SubSeq(chars, 3, Len(chars)), 16)
                       ELSE from_str_radix(chars, 10)
         IN IF parsed.ok THEN Ok(Some(parsed.value)) ELSE parsed
    ELSE Err("invalid chain ID value in domain")

\* impl Deserialize for TypedData: TypedData { raw, inner, chain_id }.
DeserializeTypedData(raw) ==
    IF ~DeserializeChainId(raw.domain.chainId).ok THEN DeserializeChainId(raw.domain.chainId)
    ELSE Ok([raw |-> raw, chain_id |-> DeserializeChainId(raw.domain.chainId).value])

\* impl Serialize for Addresses: the sequence of address.to_string().
SerializeAddresses(addresses) ==
    Val([t |-> "array", items |-> [i \in 1..Len(addresses) |-> Text(addresses[i])]])

\* impl Serialize for Bytes: the hex string of the bytes.
SerializeBytes(bytes) == Val([t |-> "bytes", hex |-> bytes])

\* Transaction::encode(signature): the signed raw transaction.
encode(transaction, signature) ==
    [raw |-> transaction.inner, signature |-> signature]

\* T::deserialize(params) for a tuple type T, in Handled::internal: params
\* must be an array with one value of the right type per tuple member
\* (None becomes Value::Null, which no tuple type accepts).
DeserializeTuple(params, types) ==
    /\ IsSome(params)
    /\ Unwrap(params).kind = "Array"
    /\ Len(Unwrap(params).items) = Len(types)
    /\ \A k \in 1..Len(types) : Unwrap(params).items[k].t = types[k]

\* What handling one request did: the Result of mux_handler (or a panic that
\* unwinds the task), the calls made to the signer, the signatures and log
\* records produced, the chain ID cache afterwards and the HTTP calls made.
Handling(handled, called, effects, cache, calls) ==
    [panic |-> FALSE, handled |-> handled,
     called |-> [k \in 1..Len(called) |-> SignerCall("BoxSigner", called[k], None)]
                    \o effects.trace,
     signed |-> effects.signed, logged |-> effects.logged, cache |-> cache,
     calls |-> calls]

Unwinding(cache, calls) ==
    [panic |-> TRUE, handled |-> None, called |-> <<>>, signed |-> <<>>,
     logged |-> <<>>, cache |-> cache, calls |-> calls]

NoEffects == Effects(None, <<>>, <<>>)

\* The effects of a call and the log records written after it returned.
Logging(effects, records) == [effects EXCEPT !.logged = @ \o records]

\* Handled::internal when T::deserialize(params) fails: the debug record
\* and Error::invalid_params().
DeserializeFailed == [level |-> "debug", message |-> "failed to deserialize parameters"]
\* A Handled::internal that answers a failed T::deserialize(params) with
\* Error::internal_error().
MutInvalidParamsInternalError(cache) ==
    Handling(Err(internal_error), <<>>, Logging(NoEffects, <<DeserializeFailed>>),
             cache, <<>>)

InvalidParams(cache) ==
    Handling(Err(invalid_params), <<>>, Logging(NoEffects, <<DeserializeFailed>>),
             cache, <<>>)

\* The "eth_accounts" arm.
HandleAccounts(params, cache) ==
    IF ~DeserializeTuple(params, <<>>)
    THEN InvalidParams(cache)
    ELSE Handling(Ok(Internal(SerializeAddresses(SignerAccounts))),
                  <<"accounts">>, NoEffects, cache, <<>>)

\* The end of a signing arm: the ? on the signer's Result, then
\* Bytes::from_signature.
HandleSigned(kind, signing, cache) ==
    IF ~signing.result.ok
    THEN Handling(Err(ErrorFromAnyhow(signing.result.error)), <<kind>>,
                  Logging(signing, <<Encountered(signing.result.error)>>), cache, <<>>)
    ELSE Handling(Ok(Internal(SerializeBytes(signing.result.value))), <<kind>>,
                  signing, cache, <<>>)

\* The "eth_sign" and "eth_signTypedData" arms: kind is "signed message" or
\* "signed typed data", type the JSON type of the second parameter.  The
\* typed data arm calls sign_typed_data on what it deserialized.
HandleSign(kind, type, params, hook, cache) ==
    IF ~DeserializeTuple(params, <<"address", type>>)
    THEN InvalidParams(cache)
    ELSE IF type = "typedData" /\ ~DeserializeTypedData(Unwrap(params).items[2].raw).ok
    THEN InvalidParams(cache)
    ELSE HandleSigned(kind,
                      SignerSign(kind, Unwrap(params).items[1].a,
                                 Unwrap(params).items[2], hook),
                      cache)

\* The transaction arm after sign_transaction: Bytes(transaction.encode(
\* signature)), forwarded as eth_sendRawTransaction or returned.
HandleTransactionSigned(method, transaction, signing, cache, calls) ==
    IF ~signing.result.ok
    THEN Handling(Err(ErrorFromAnyhow(signing.result.error)),
                  <<"signed transaction">>,
                  Logging(signing, <<Encountered(signing.result.error)>>), cache, calls)
    ELSE IF method = "eth_sendTransaction"
    THEN Handling(Ok(Remote("eth_sendRawTransaction",
                            Some(Array(<<SerializeBytes(
                                encode(transaction, signing.result.value))>>)))),
                  <<"signed transaction">>, signing, cache, calls)
    ELSE Handling(Ok(Internal(SerializeBytes(encode(transaction, signing.result.value)))),
                  <<"signed transaction">>, signing, cache, calls)

\* The transaction arm after transaction.fill(&self.remote).await?
HandleTransactionFilled(method, filled, hook) ==
    IF IsPanic(filled.result) THEN Unwinding(filled.cache, filled.calls)
    ELSE IF ~filled.result.ok
    THEN Handling(Err(ErrorFromAnyhow(filled.result.error)), <<>>,
                  Logging(NoEffects, <<Encountered(filled.result.error)>>),
                  filled.cache, filled.calls)
    ELSE HandleTransactionSigned(method, filled.result.value.transaction,
             SignerSign("signed transaction", filled.result.value.account,
                        filled.result.value.transaction, hook),
             filled.cache, filled.calls)

\* The transaction arm after the parameters are read.
HandleTransactionRequest(method, request, hook, node, cache) ==
    IF ~request.ok THEN InvalidParams(cache)
    ELSE HandleTransactionFilled(method, Fill(request.value, cache, node), hook)

\* The "eth_sendTransaction" | "eth_signTransaction" arm.
HandleTransaction(method, params, hook, node, cache) ==
    IF ~DeserializeTuple(params, <<"object">>)
    THEN InvalidParams(cache)
    ELSE HandleTransactionRequest(method,
             DeserializeTransactionRequest(Unwrap(params).items[1].obj),
             hook, node, cache)

\* The methods mux_handler serves itself.
LocalMethods ==
    {"eth_accounts", "eth_sendTransaction", "eth_signTransaction", "eth_sign",
     "eth_signTypedData"}

\* A "_" arm that forwards the method without its params.
MutHandleOtherDropParams(method, params, cache) ==
    Handling(Ok(Remote(method, None)), <<>>, NoEffects, cache, <<>>)

\* The "_" arm.
HandleOther(method, params, cache) ==
    Handling(Ok(Remote(method, params)), <<>>, NoEffects, cache, <<>>)

\* Node::mux_handler, with what the policy hook does if it is called (hook)
\* and the remote node that answers if fill executes its batch (node).
mux_handler(method, params, hook, node, cache) ==
    CASE method = "eth_accounts" -> HandleAccounts(params, cache)
      [] method \in {"eth_sendTransaction", "eth_signTransaction"} ->
            HandleTransaction(method, params, hook, node, cache)
      [] method = "eth_sign" -> HandleSign("signed message", "bytes", params, hook, cache)
      [] method = "eth_signTypedData" ->
            HandleSign("signed typed data", "typedData", params, hook, cache)
      [] OTHER -> HandleOther(method, params, cache)

\* Node::mux: the Outcome for the handled request.
mux(request, handled) ==
    IF ~handled.ok
    THEN OutcomeInternal([jsonrpc |-> request.jsonrpc, result |-> Err(handled.error),
                          id |-> request.id])
    ELSE IF handled.value.kind = "Internal"
    THEN OutcomeInternal([jsonrpc |-> request.jsonrpc, result |-> Ok(handled.value.value),
                          id |-> request.id])
    ELSE OutcomeRemote([jsonrpc |-> request.jsonrpc, method |-> handled.value.method,
                        params |-> handled.value.params, id |-> request.id])

(***************************************************************************)
(* node.rs: Node::handle_request and Node::handle_requests                 *)
(***************************************************************************)
\* An internal error response that leaves the id of the request out.
MutInternalErrorResponseNullId(request) ==
    [jsonrpc |-> request.jsonrpc, result |-> Err(internal_error), id |-> IdNull]

\* tracing::debug!(?err, .., "error executing remote request") and its
\* batched form.
ExecutionFailed(message) == [level |-> "debug", message |-> message]

\* The Response for a remote request whose execution failed.
InternalErrorResponse(request) ==
    [jsonrpc |-> request.jsonrpc, result |-> Err(internal_error), id |-> request.id]

\* The fold of handle_requests: the slots (Option<Response>) and the remote
\* requests, both in the order of the batch.
Slots(outs) ==
    [i \in 1..Len(outs) |->
        IF outs[i].kind = "Internal" THEN Some(outs[i].response) ELSE None]

RECURSIVE RemoteRequests(_)
RemoteRequests(outs) ==
    IF outs = <<>> THEN <<>>
    ELSE IF Head(outs).kind = "Remote"
    THEN <<Head(outs).request>> \o RemoteRequests(Tail(outs))
    ELSE RemoteRequests(Tail(outs))

\* Remote responses that are dropped when execute_many fails.
MutRemoteResponsesNone(remote_requests, executed) ==
    IF executed.ok THEN executed.value ELSE <<>>

\* remote_responses of handle_requests: what execute_many returned, or an
\* internal error for every remote request when it failed.
RemoteResponses(remote_requests, executed) ==
    IF executed.ok THEN executed.value
    ELSE [k \in 1..Len(remote_requests) |-> InternalErrorResponse(remote_requests[k])]

\* The merge of handle_requests: each empty slot takes the next remote
\* response; expect() panics when there is none; what is left over remains.
RECURSIVE Merge(_, _)
Merge(slots, remote_responses) ==
    IF slots = <<>>
    THEN [panic |-> FALSE, responses |-> <<>>, leftover |-> remote_responses]
    ELSE IF IsSome(Head(slots))
    THEN LET rest == Merge(Tail(slots), remote_responses)
         IN [rest EXCEPT !.responses = <<Unwrap(Head(slots))>> \o @]
    ELSE IF remote_responses = <<>>
    THEN [panic |-> TRUE, responses |-> <<>>, leftover |-> <<>>]
    ELSE LET rest == Merge(Tail(slots), Tail(remote_responses))
         IN [rest EXCEPT !.responses = <<Head(remote_responses)>> \o @]

(***************************************************************************)
(* Spec: the HTTP handler of node.rs serving one client payload at a time. *)
(***************************************************************************)
\* Input::Batch(requests) with up to MaxBatch requests.
MaxBatch == 2

\* The ids of the requests of a batch, by position.
BatchRequestIds == <<"1", "2", "3", "4">>

\* The calls a client makes: (method, params).
Call(method, params) == [method |-> method, params |-> params]

AccountsCall == Call("eth_accounts", Some(Array(<<>>)))
SignCall(account) ==
    Call("eth_sign", Some(Array(<<AddressItem(account), BytesItem("0x68656c6c6f")>>)))
SignTypedDataCall(account, chain_id) ==
    Call("eth_signTypedData",
         Some(Array(<<AddressItem(account),
                      TypedDataItem(RawTypedData("Mail", chain_id))>>)))
TransactionCall(method, account) ==
    Call(method, Some(Array(<<ObjectItem([from |-> account])>>)))
\* A transaction request that sets members besides from.
TransactionObjectCall(method, obj) == Call(method, Some(Array(<<ObjectItem(obj)>>)))
BlockNumberCall == Call("eth_blockNumber", None)
GetBalanceCall ==
    Call("eth_getBalance", Some(Array(<<AddressItem(Stranger), Text("latest")>>)))

ClientCalls ==
    {AccountsCall,
     Call("eth_accounts", None),
     SignCall("0xA0"),
     SignCall(Stranger),
     SignTypedDataCall("0xA1", Absent),
     SignTypedDataCall("0xA1", JsonNumber(1)),
     SignTypedDataCall("0xA1", JsonNumber(2)),
     SignTypedDataCall("0xA1", JsonString(<<"1">>)),
     SignTypedDataCall("0xA1", JsonString(<<"0", "x", "1">>)),
     SignTypedDataCall("0xA1", JsonString(<<"0", "x", "2">>)),
     SignTypedDataCall("0xA1", JsonString(<<"0", "x">>)),
     SignTypedDataCall("0xA1", JsonBool(TRUE)),
     TransactionCall("eth_signTransaction", "0xA0"),
     TransactionCall("eth_sendTransaction", "0xA0"),
     TransactionCall("eth_sendTransaction", Stranger),
     TransactionObjectCall("eth_signTransaction", [from |-> "0xA0", chainId |-> 1]),
     TransactionObjectCall("eth_signTransaction", [from |-> "0xA0", chainId |-> 2]),
     TransactionObjectCall("eth_signTransaction", [from |-> "0xA0", nonce |-> 4]),
     TransactionObjectCall("eth_signTransaction", [from |-> "0xA0", nonce |-> 5]),
     TransactionObjectCall("eth_sendTransaction", [from |-> "0xA0", nonce |-> 6]),
     TransactionObjectCall("eth_sendTransaction",
                           [from |-> "0xA0", gasPrice |-> 2, maxFeePerGas |-> 3]),
     TransactionObjectCall("eth_signTransaction",
                           [from |-> "0xA0", gasPrice |-> 2, maxPriorityFeePerGas |-> 1]),
     TransactionObjectCall("eth_signTransaction",
                           [from |-> "0xA0", gas |-> 9, maxFeePerGas |-> 8]),
     Call("eth_accounts", Some(Array(<<Text("latest")>>))),
     Call("eth_accounts", Some(Object([block |-> Text("latest")]))),
     Call("eth_sign", None),
     Call("eth_sign", Some(Array(<<AddressItem("0xA0")>>))),
     Call("eth_sign", Some(Array(<<BytesItem("0x68656c6c6f"), AddressItem("0xA0")>>))),
     Call("eth_sign", Some(Object([account |-> AddressItem("0xA0"),
                                   data |-> BytesItem("0x68656c6c6f")]))),
     Call("eth_signTypedData", None),
     Call("eth_signTypedData",
          Some(Array(<<AddressItem("0xA1"), BytesItem("0x68656c6c6f")>>))),
     Call("eth_signTypedData",
          Some(Object([account |-> AddressItem("0xA1"),
                       data |-> TypedDataItem(RawTypedData("Mail", Absent))]))),
     Call("eth_signTransaction", None),
     Call("eth_signTransaction", Some(Array(<<AddressItem("0xA0")>>))),
     Call("eth_sendTransaction",
          Some(Array(<<ObjectItem([from |-> "0xA0"]), ObjectItem([from |-> "0xA0"])>>))),
     Call("eth_sendTransaction", Some(Object([transaction |-> ObjectItem([from |-> "0xA0"])]))),
     TransactionObjectCall("eth_signTransaction", [to |-> Stranger]),
     TransactionObjectCall("eth_signTransaction", [from |-> "0xA0", type |-> 2]),
     TransactionObjectCall("eth_signTransaction",
                           [from |-> "0xA0", to |-> Stranger, gas |-> 9, gasPrice |-> 2,
                            value |-> 1, data |-> "0x00", nonce |-> 5,
                            accessList |-> <<Stranger>>, chainId |-> 1]),
     TransactionObjectCall("eth_signTransaction",
                           [from |-> "0xA0", maxFeePerGas |-> 8,
                            maxPriorityFeePerGas |-> 1]),
     TransactionObjectCall("eth_sendTransaction", [from |-> "0xA0", gasLimit |-> 9]),
     BlockNumberCall,
     GetBalanceCall}

\* The calls batches are made of: one answered locally without the signer,
\* one signed locally, one filled, signed and rewritten, two passed through.
BatchCalls ==
    {AccountsCall,
     SignCall("0xA0"),
     TransactionCall("eth_sendTransaction", "0xA0"),
     Call("eth_sign", Some(Object([account |-> AddressItem("0xA0")]))),
     BlockNumberCall,
     GetBalanceCall}

\* Single requests carry any Id; the requests of a batch are numbered.
ClientRequests ==
    {Request(call.method, call.params, id) : call \in ClientCalls, id \in Ids}

ClientBatches ==
    {[i \in 1..Len(calls) |->
        Request(calls[i].method, calls[i].params, BatchRequestIds[i])] :
     calls \in UNION {[1..n -> BatchCalls] : n \in 0..MaxBatch}}

(***************************************************************************)
(* node.rs: Input.  The body of the HTTP POST is a serde_json::Value that  *)
(* the untagged Input is decoded from, or a text that is not JSON.         *)
(***************************************************************************)
ValueNull == [json |-> "null"]
ValueNumber(n) == [json |-> "number", n |-> n]
ValueString(s) == [json |-> "string", s |-> s]
ValueArray(items) == [json |-> "array", items |-> items]
ValueObject(map) == [json |-> "object", map |-> map]
\* A body that serde_json cannot parse.
NotJson == [json |-> "invalid"]

\* Error::invalid_request(), called by the handler.
invalid_request == [code |-> -32600, message |-> "Invalid Request", data |-> None]

\* impl Deserialize for Id (untagged: String, Number, Null), from a Value;
\* the Id is kept as its JSON text.
DeserializeIdValue(value) ==
    CASE value.json = "string" -> Ok("\"" \o value.s \o "\"")
      [] value.json = "number" -> Ok(ToString(value.n))
      [] value.json = "null" -> Ok(IdNull)
      [] OTHER -> Err("data did not match any variant of untagged enum Id")

\* impl Deserialize for Option<Params> (Params untagged: Array, Object).
DeserializeParams(value) ==
    CASE value.json = "null" -> Ok(None)
      [] value.json = "array" -> Ok(Some(Array(value.items)))
      [] value.json = "object" -> Ok(Some(Object(value.map)))
      [] OTHER -> Err("data did not match any variant of untagged enum Params")

\* The members of Request in declaration order.
RequestFields == <<"jsonrpc", "method", "params", "id">>

\* #[derive(Deserialize)] for Request, visit_map: members are looked up by
\* name, other members are ignored, a missing member is None.
RequestMap(value) ==
    [k \in 1..Len(RequestFields) |->
        IF RequestFields[k] \in DOMAIN value.map
        THEN Some(value.map[RequestFields[k]]) ELSE None]

\* #[derive(Deserialize)] for Request, visit_seq: the members are the
\* elements of the sequence in declaration order, no more and no fewer.
RequestSeq(value) == [k \in 1..Len(RequestFields) |-> Some(value.items[k])]

\* #[derive(Deserialize)] for Request, given its members: jsonrpc is "2.0",
\* method a string, params an Option, id an Id that is not left out.
RequestFrom(members) ==
    IF IsNone(members[1]) \/ IsNone(members[2]) \/ IsNone(members[4])
    THEN Err("missing field")
    ELSE IF Unwrap(members[1]) /= ValueString(V2) THEN Err("unknown variant")
    ELSE IF Unwrap(members[2]).json /= "string" THEN Err("invalid type")
    ELSE IF IsSome(members[3]) /\ ~DeserializeParams(Unwrap(members[3])).ok
    THEN DeserializeParams(Unwrap(members[3]))
    ELSE IF ~DeserializeIdValue(Unwrap(members[4])).ok
    THEN DeserializeIdValue(Unwrap(members[4]))
    ELSE Ok(Request(Unwrap(members[2]).s,
                    IF IsSome(members[3])
                    THEN DeserializeParams(Unwrap(members[3])).value ELSE None,
                    DeserializeIdValue(Unwrap(members[4])).value))

\* #[derive(Deserialize)] for Request: a struct is read from a JSON object
\* or from a JSON array.
DeserializeRequest(value) ==
    CASE value.json = "object" -> RequestFrom(RequestMap(value))
      [] value.json = "array" /\ Len(value.items) = Len(RequestFields) ->
            RequestFrom(RequestSeq(value))
      [] value.json = "array" -> Err("invalid length")
      [] OTHER -> Err("invalid type")

\* #[derive(Deserialize)] #[serde(untagged)] for Input: the first variant
\* that decodes, in the order Request, Batch, Unrecognized.
DeserializeInput(value) ==
    IF DeserializeRequest(value).ok
    THEN [kind |-> "Request", request |-> DeserializeRequest(value).value,
          payload |-> value]
    ELSE IF value.json = "array"
            /\ \A k \in 1..Len(value.items) : DeserializeRequest(value.items[k]).ok
    THEN [kind |-> "Batch",
          requests |-> [k \in 1..Len(value.items) |->
                            DeserializeRequest(value.items[k]).value],
          payload |-> value]
    ELSE [kind |-> "Unrecognized", data |-> value, payload |-> value]

\* A request as a JSON object, with or without its params and id members.
RequestObject(method, params, id) ==
    ValueObject([jsonrpc |-> ValueString(V2), method |-> ValueString(method),
                 params |-> params, id |-> id])
RequestObjectNoParams(method, id) ==
    ValueObject([jsonrpc |-> ValueString(V2), method |-> ValueString(method), id |-> id])
RequestObjectNoId(method, params) ==
    ValueObject([jsonrpc |-> ValueString(V2), method |-> ValueString(method),
                 params |-> params])
\* A request as a JSON array of its members.
RequestTuple(method, params, id) ==
    ValueArray(<<ValueString(V2), ValueString(method), params, id>>)

SignItems == <<AddressItem("0xA0"), BytesItem("0x68656c6c6f")>>

\* The bodies a client posts besides the requests and batches above.
ClientPayloads ==
    {RequestObjectNoParams("eth_blockNumber", ValueNumber(1)),
     RequestObject("eth_accounts", ValueArray(<<>>), ValueString("1")),
     RequestObject("eth_sign", ValueObject([account |-> AddressItem("0xA0")]),
                   ValueNull),
     ValueObject([jsonrpc |-> ValueString(V2), method |-> ValueString("eth_accounts"),
                  params |-> ValueNull, id |-> ValueNumber(2),
                  extra |-> ValueNull]),
     RequestObjectNoId("eth_accounts", ValueArray(<<>>)),
     RequestObjectNoId("eth_sign", ValueArray(SignItems)),
     RequestObjectNoId("eth_blockNumber", ValueNull),
     ValueObject([jsonrpc |-> ValueString("1.0"), method |-> ValueString("eth_accounts"),
                  id |-> ValueNumber(1)]),
     RequestObject("eth_blockNumber", ValueString("latest"), ValueNumber(1)),
     RequestObject("eth_blockNumber", ValueNull, ValueArray(<<>>)),
     ValueObject([jsonrpc |-> ValueString(V2), method |-> ValueNumber(1),
                  id |-> ValueNumber(1)]),
     ValueNull,
     ValueNumber(1),
     ValueString("eth_accounts"),
     ValueObject([id |-> ValueNumber(1)]),
     ValueArray(<<>>),
     ValueArray(<<ValueNumber(1)>>),
     ValueArray(<<RequestObject("eth_accounts", ValueArray(<<>>), ValueNumber(1))>>),
     ValueArray(<<RequestObject("eth_sign", ValueArray(SignItems), ValueNumber(1)),
                  RequestObjectNoId("eth_blockNumber", ValueNull)>>),
     ValueArray(<<RequestObjectNoId("eth_sign", ValueArray(SignItems)),
                  RequestObjectNoParams("eth_blockNumber", ValueNumber(2))>>),
     RequestTuple("eth_blockNumber", ValueNull, ValueNumber(1)),
     RequestTuple("eth_sign", ValueArray(SignItems), ValueNumber(1)),
     ValueArray(<<ValueString(V2), ValueString("eth_accounts"), ValueNull>>),
     ValueArray(<<RequestTuple("eth_accounts", ValueArray(<<>>), ValueNumber(1))>>)}

\* Bodies that are not JSON.
ClientBodies == {NotJson}

NoInput == [kind |-> "None"]

\* The requests of the Input being handled, in order.
Elements ==
    CASE input.kind = "Request" -> <<input.request>>
      [] input.kind = "Batch" -> input.requests
      [] OTHER -> <<>>

\* Effects of handling element i (0: of the handler itself).
Tag(i, seq) == [k \in 1..Len(seq) |-> [for |-> i, what |-> seq[k]]]

\* The chain IDs of the networks a remote node may be on.
ChainIds == {1, 2}

\* main.rs init: the signer stack is built from the Config, the startup call
\* of remote.chain_id() has filled the cache or has failed, and no request
\* has been received.
Init ==
    /\ codec_pc = "off"
    /\ codec_value = None
    /\ codec_wire = None
    /\ codec_decoded = None
    /\ validator \in BOOLEAN
    /\ debug_assertions \in BOOLEAN
    /\ lua = None
    /\ chain_id_cache \in {None} \cup {Some(id) : id \in ChainIds}
    /\ pc = "idle"
    /\ input = NoInput
    /\ outcomes = <<>>
    /\ upstream = <<>>
    /\ remote_reply = None
    /\ remote_result = None
    /\ signer_calls = <<>>
    /\ signatures = <<>>
    /\ log = <<>>
    /\ output = None
    /\ fills = <<>>

\* The handler is not running.
Ready == pc = "idle"

\* handler: Input::Request(request) arrives.
ReceiveRequest ==
    /\ Ready
    /\ \E request \in ClientRequests : input' = [kind |-> "Request", request |-> request]
    /\ pc' = "mux"
    /\ outcomes' = <<>>
    /\ upstream' = <<>>
    /\ remote_reply' = None
    /\ remote_result' = None
    /\ signer_calls' = <<>>
    /\ signatures' = <<>>
    /\ log' = <<>>
    /\ output' = None
    /\ UNCHANGED <<codec_vars, fill_vars, config_vars, chain_id_cache>>

\* handler: Input::Batch(requests) arrives.
ReceiveBatch ==
    /\ Ready
    /\ \E requests \in ClientBatches : input' = [kind |-> "Batch", requests |-> requests]
    /\ pc' = "mux"
    /\ outcomes' = <<>>
    /\ upstream' = <<>>
    /\ remote_reply' = None
    /\ remote_result' = None
    /\ signer_calls' = <<>>
    /\ signatures' = <<>>
    /\ log' = <<>>
    /\ output' = None
    /\ UNCHANGED <<codec_vars, fill_vars, config_vars, chain_id_cache>>

\* handler: the Json<Input> guard has parsed the body and the untagged Input
\* is decoded from it.
ReceivePayload ==
    /\ Ready
    /\ \E body \in ClientPayloads : input' = DeserializeInput(body)
    /\ pc' = "mux"
    /\ outcomes' = <<>>
    /\ upstream' = <<>>
    /\ remote_reply' = None
    /\ remote_result' = None
    /\ signer_calls' = <<>>
    /\ signatures' = <<>>
    /\ log' = <<>>
    /\ output' = None
    /\ UNCHANGED <<codec_vars, fill_vars, config_vars, chain_id_cache>>

\* handler, arm Input::Unrecognized(data).
HandleUnrecognized ==
    /\ pc = "mux"
    /\ input.kind = "Unrecognized"
    /\ log' = log \o Tag(0, <<[level |-> "debug",
                               message |-> "HTTP body is not a valid request or batch",
                               data |-> input.data]>>)
    /\ output' = Some([kind |-> "Response",
                       response |-> Response(Err(invalid_request), IdNull)])
    /\ pc' = "done"
    /\ UNCHANGED <<codec_vars, fill_vars, config_vars, chain_id_cache, input, outcomes, upstream,
                   remote_reply, remote_result, signer_calls, signatures>>

\* The Json<Input> guard of handler fails on a body that is not JSON: the
\* handler does not run and Rocket's default catcher answers 400 Bad Request.
RejectBody ==
    /\ Ready
    /\ \E body \in ClientBodies : input' = [kind |-> "Rejected", payload |-> body]
    /\ pc' = "done"
    /\ outcomes' = <<>>
    /\ upstream' = <<>>
    /\ remote_reply' = None
    /\ remote_result' = None
    /\ signer_calls' = <<>>
    /\ signatures' = <<>>
    /\ log' = <<>>
    /\ output' = Some([kind |-> "Status", status |-> 400])
    /\ UNCHANGED <<codec_vars, fill_vars, config_vars, chain_id_cache>>

\* What the policy hook may do in this run: without a Validator there is no
\* hook to call.
HookChoices == IF validator THEN HookOutcomes ELSE {"true"}

\* The remote nodes fill may meet: only the transaction methods call fill.
FillNodes(request) ==
    IF request.method \in {"eth_sendTransaction", "eth_signTransaction"}
    THEN RemoteNodes \cup {"brief"} ELSE {"honest"}

\* What self.mux(request) leaves behind for request i of the input.
MuxDone(i, request, handling) ==
    /\ chain_id_cache' = handling.cache
    /\ upstream' = upstream \o Tag(i, handling.calls)
    /\ signer_calls' = signer_calls \o Tag(i, handling.called)
    /\ signatures' = signatures \o Tag(i, handling.signed)
    /\ log' = log \o Tag(i, handling.logged)
    /\ IF handling.panic
       THEN /\ pc' = "panicked"
            /\ outcomes' = outcomes
       ELSE /\ pc' = "mux"
            /\ outcomes' = Append(outcomes, mux(request, handling.handled))

\* self.mux(request) for the next request of the input, with the fill and
\* the signing it does.
Mux ==
    /\ pc = "mux"
    /\ Len(outcomes) < Len(Elements)
    /\ \E hook \in HookChoices, node \in FillNodes(Elements[Len(outcomes) + 1]) :
          MuxDone(Len(outcomes) + 1, Elements[Len(outcomes) + 1],
                  mux_handler(Elements[Len(outcomes) + 1].method,
                              Elements[Len(outcomes) + 1].params, hook, node,
                              chain_id_cache))
    /\ UNCHANGED <<codec_vars, fill_vars, config_vars, input, remote_reply, remote_result, output>>

\* handle_request, arm Outcome::Internal(response).
HandleRequestInternal ==
    /\ pc = "mux"
    /\ input.kind = "Request"
    /\ Len(outcomes) = 1
    /\ outcomes[1].kind = "Internal"
    /\ output' = Some([kind |-> "Response", response |-> outcomes[1].response])
    /\ pc' = "done"
    /\ UNCHANGED <<codec_vars, fill_vars, config_vars, chain_id_cache, input, outcomes, upstream,
                   remote_reply, remote_result, signer_calls, signatures, log>>

\* handle_request, arm Outcome::Remote(request): self.remote.execute(&request).
HandleRequestRemote ==
    /\ pc = "mux"
    /\ input.kind = "Request"
    /\ Len(outcomes) = 1
    /\ outcomes[1].kind = "Remote"
    /\ \E node \in RemoteNodes :
          LET request == outcomes[1].request
              reply == RemoteReply(node, request)
              executed == Execute(request, reply)
          IN /\ upstream' = Append(upstream,
                    [for |-> 0,
                     what |-> [kind |-> "execute", requests |-> <<request>>]])
             /\ remote_reply' = Some(reply)
             /\ remote_result' = Some(executed)
             /\ log' = IF executed.ok THEN log
                       ELSE log \o Tag(0, <<ExecutionFailed(
                                "error executing remote request")>>)
             /\ output' = Some([kind |-> "Response",
                                response |-> IF executed.ok THEN executed.value
                                             ELSE InternalErrorResponse(request)])
    /\ pc' = "done"
    /\ UNCHANGED <<codec_vars, fill_vars, config_vars, chain_id_cache, input, outcomes,
                   signer_calls, signatures>>

\* handle_requests after join_all: the fold, execute_many and the merge.
HandleRequests ==
    /\ pc = "mux"
    /\ input.kind = "Batch"
    /\ Len(outcomes) = Len(input.requests)
    /\ \E node \in RemoteNodes :
          LET remote_requests == RemoteRequests(outcomes)
              reply == RemoteBatchReply(node, remote_requests)
              executed == ExecuteMany(remote_requests, reply)
              merged == Merge(Slots(outcomes), RemoteResponses(remote_requests, executed))
          IN /\ upstream' = Append(upstream,
                    [for |-> 0,
                     what |-> [kind |-> "execute_many", requests |-> remote_requests]])
             /\ remote_reply' = Some(reply)
             /\ remote_result' = Some(executed)
             /\ log' = IF executed.ok THEN log
                       ELSE log \o Tag(0, <<ExecutionFailed(
                                "error executing remote batched requests")>>)
             /\ IF merged.panic \/ (debug_assertions /\ merged.leftover /= <<>>)
                THEN /\ pc' = "panicked"
                     /\ output' = None
                ELSE /\ pc' = "done"
                     /\ output' = Some([kind |-> "Batch", responses |-> merged.responses])
    /\ UNCHANGED <<codec_vars, fill_vars, config_vars, chain_id_cache, input, outcomes,
                   signer_calls, signatures>>

\* handler returns Json(output), or the panic has unwound its task: the
\* run is over and the server waits for the next payload.
Return ==
    /\ pc \in {"done", "panicked"}
    /\ pc' = "idle"
    /\ input' = NoInput
    /\ outcomes' = <<>>
    /\ upstream' = <<>>
    /\ remote_reply' = None
    /\ remote_result' = None
    /\ signer_calls' = <<>>
    /\ signatures' = <<>>
    /\ log' = <<>>
    /\ output' = None
    /\ UNCHANGED <<codec_vars, fill_vars, config_vars, chain_id_cache>>

Next ==
    \/ ReceiveRequest
    \/ ReceiveBatch
    \/ ReceivePayload
    \/ RejectBody
    \/ Mux
    \/ HandleUnrecognized
    \/ HandleRequestInternal
    \/ HandleRequestRemote
    \/ HandleRequests
    \/ Return

Spec == Init /\ [][Next]_vars

(***************************************************************************)
(* SpecCodec: Serialize and Deserialize of Response applied to bounded     *)
(* inputs: a Response to encode and decode again, or a wire object to      *)
(* decode.                                                                 *)
(***************************************************************************)
InitCodec ==
    /\ codec_decoded = None
    /\ \/ /\ codec_pc = "value"
          /\ codec_value \in {Some(r) : r \in Responses}
          /\ codec_wire = None
       \/ /\ codec_pc = "wire"
          /\ codec_value = None
          /\ codec_wire \in {Some(w) : w \in WireResponses}
    /\ validator = FALSE
    /\ debug_assertions = FALSE
    /\ lua = None
    /\ chain_id_cache = None
    /\ pc = "off"
    /\ input = NoInput
    /\ outcomes = <<>>
    /\ upstream = <<>>
    /\ remote_reply = None
    /\ remote_result = None
    /\ signer_calls = <<>>
    /\ signatures = <<>>
    /\ log = <<>>
    /\ output = None
    /\ fills = <<>>

\* serde_json::to_string(&response)
Encode ==
    /\ codec_pc = "value"
    /\ codec_wire' = Some(Serialize(Unwrap(codec_value)))
    /\ codec_pc' = "wire"
    /\ UNCHANGED <<codec_value, codec_decoded, config_vars, node_vars, fill_vars>>

\* serde_json::from_slice::<Response>(bytes)
Decode ==
    /\ codec_pc = "wire"
    /\ codec_decoded' = Some(Deserialize(Unwrap(codec_wire)))
    /\ codec_pc' = "decoded"
    /\ UNCHANGED <<codec_value, codec_wire, config_vars, node_vars, fill_vars>>

NextCodec == Encode \/ Decode

SpecCodec == InitCodec /\ [][NextCodec]_vars

(***************************************************************************)
(* SpecFills: transaction requests handled at the same time (the futures   *)
(* of join_all in handle_requests, or handler tasks of separate HTTP       *)
(* requests).  Each one runs the transaction arm of mux_handler: fill      *)
(* enqueues its calls, Batch::chain_id reading the ChainIdCache as it is   *)
(* called, and suspends at batch.execute().await; when the reply is there  *)
(* it resumes and runs, without suspending again, to the end of the        *)
(* signing.  The startup call of remote.chain_id() has failed, so the      *)
(* cache starts empty.                                                     *)
(***************************************************************************)
\* The transaction requests in flight at once.
MaxFills == 3

\* The transaction requests the concurrent clients send.
FillRequests ==
    {DeserializeTransactionRequest(obj).value :
        obj \in {[from |-> "0xA0"],
                 [from |-> "0xA0", chainId |-> 1],
                 [from |-> "0xA0", gas |-> 9, maxFeePerGas |-> 8]}}

\* The remote nodes a fill meets: unreachable, answering in the order of the
\* requests, answering in reverse order.
FillRemoteNodes == {"down", "honest", "reversed"}

InitFills ==
    /\ codec_pc = "off"
    /\ codec_value = None
    /\ codec_wire = None
    /\ codec_decoded = None
    /\ validator = FALSE
    /\ debug_assertions = FALSE
    /\ lua = None
    /\ chain_id_cache = None
    /\ pc = "off"
    /\ input = NoInput
    /\ outcomes = <<>>
    /\ upstream = <<>>
    /\ remote_reply = None
    /\ remote_result = None
    /\ signer_calls = <<>>
    /\ signatures = <<>>
    /\ log = <<>>
    /\ output = None
    /\ fills = [c \in 1..MaxFills |-> [pc |-> "start"]]

\* fill up to batch.execute().await: ChainIdCache::with locks the cache and
\* reads it (seen) while the calls are enqueued.
FillEnqueue(c) ==
    /\ fills[c].pc = "start"
    /\ \E tx \in FillRequests :
          fills' = [fills EXCEPT ![c] = [pc |-> "executing", tx |-> tx,
                                         seen |-> chain_id_cache]]
    /\ UNCHANGED <<codec_vars, config_vars, node_vars>>

\* What the rest of the transaction arm leaves behind: the future of
\* ChainIdCache::with stores the chain ID it fetched when with() had seen
\* an empty cache, whatever the cache holds by now.
FillResumed(c, seen, handling) ==
    /\ chain_id_cache' = IF IsNone(seen) /\ IsSome(handling.cache)
                         THEN handling.cache ELSE chain_id_cache
    /\ upstream' = upstream \o Tag(c, handling.calls)
    /\ signer_calls' = signer_calls \o Tag(c, handling.called)
    /\ signatures' = signatures \o Tag(c, handling.signed)
    /\ log' = log \o Tag(c, handling.logged)
    /\ fills' = [fills EXCEPT ![c].pc = IF handling.panic THEN "panicked" ELSE "returned"]

\* fill from batch.execute().await on, then sign_transaction.
FillResume(c) ==
    /\ fills[c].pc = "executing"
    /\ \E node \in FillRemoteNodes :
          FillResumed(c, fills[c].seen,
                      HandleTransactionFilled("eth_signTransaction",
                                              Fill(fills[c].tx, fills[c].seen, node),
                                              "true"))
    /\ UNCHANGED <<codec_vars, config_vars, pc, input, outcomes, remote_reply,
                   remote_result, output>>

NextFills == \E c \in 1..MaxFills : FillEnqueue(c) \/ FillResume(c)

SpecFills == InitFills /\ [][NextFills]_vars

(***************************************************************************)
(* SpecFill: one TransactionRequest::fill, for every combination of the    *)
(* optional members of the request and every outcome of the calls of its   *)
(* batch.  The remote node answers the batch in order and in full; each    *)
(* answer is a result, an RPC error, or a result of another shape.         *)
(***************************************************************************)
\* The members of a transaction request besides from that fill looks at.
OptionalMembers == {"gas", "gasPrice", "maxFeePerGas", "maxPriorityFeePerGas", "accessList"}

\* The JSON object of a request with the given optional members.
TransactionObject(members) ==
    [name \in {"from"} \cup members |->
        CASE name = "from" -> "0xA0"
          [] name = "gas" -> 9
          [] name = "gasPrice" -> 2
          [] name = "maxFeePerGas" -> 8
          [] name = "maxPriorityFeePerGas" -> 1
          [] name = "accessList" -> <<Stranger>>
          [] name = "to" -> Stranger
          [] name = "value" -> 1
          [] name = "data" -> "0x00"
          [] name = "nonce" -> Answer("eth_getTransactionCount").v.n
          [] name = "chainId" -> Answer("eth_chainId").v.n]

\* The members fill passes on, or checks against the node.
OtherMembers == {"to", "value", "data", "nonce", "chainId"}

\* Requests with a gas price that name another nonce or another chain than
\* the node's.
StaleRequests ==
    {[TransactionObject({"gasPrice"} \cup OtherMembers) EXCEPT !.nonce = @ + 1],
     [TransactionObject({"gasPrice"} \cup OtherMembers) EXCEPT !.chainId = @ + 1]}

FillOneRequests ==
    {DeserializeTransactionRequest(obj).value :
        obj \in {TransactionObject(members) : members \in SUBSET OptionalMembers}
                \cup {TransactionObject(members \cup OtherMembers) :
                          members \in SUBSET OptionalMembers}
                \cup StaleRequests}

\* How the node answers one call of the batch: with the result, with an RPC
\* error, with the result null, with a string that is no quantity and no
\* fee history ("text"), with a fee history of a single block ("short"), or
\* with the largest quantity ("high").
QueryOutcomes(method) ==
    CASE method = "eth_feeHistory" -> {"ok", "error", "null", "text", "short"}
      [] method = "eth_maxPriorityFeePerGas" -> {"ok", "error", "null", "text", "high"}
      [] method = "eth_gasPrice" -> {"ok", "error", "text"}
      [] OTHER -> {"ok", "error"}

AllOutcomes == {"ok", "error", "null", "text", "short", "high"}

\* The response object the node writes for one call.
QueryResponse(outcome, request) ==
    CASE outcome = "ok" -> RemoteResponse("honest", request)
      [] outcome = "short" ->
            [RemoteResponse("honest", request) EXCEPT !.result = Val(FeeHistory(<<3>>))]
      [] outcome = "text" ->
            [RemoteResponse("honest", request) EXCEPT !.result = Val(Text("latest"))]
      [] outcome = "high" ->
            [RemoteResponse("honest", request) EXCEPT !.result = Val(Quantity(U256Max))]
      [] OTHER -> RemoteResponse(outcome, request)

\* The requests of the batch of a fill, numbered by prepare.
FillBatchRequests(queue) == [k \in 1..Len(queue) |-> prepare(queue[k], k)]

\* The body the node sends back for the batch, given the outcome of each call.
QueryReply(queue, answers) ==
    ReplyBatch([k \in 1..Len(queue) |->
                   QueryResponse(answers[k], FillBatchRequests(queue)[k])])

InitFill ==
    /\ codec_pc = "off"
    /\ codec_value = None
    /\ codec_wire = None
    /\ codec_decoded = None
    /\ validator = FALSE
    /\ debug_assertions \in BOOLEAN
    /\ lua = None
    /\ chain_id_cache \in {None, Some(Answer("eth_chainId").v.n)}
    /\ pc = "off"
    /\ input = NoInput
    /\ outcomes = <<>>
    /\ upstream = <<>>
    /\ remote_reply = None
    /\ remote_result = None
    /\ signer_calls = <<>>
    /\ signatures = <<>>
    /\ log = <<>>
    /\ output = None
    /\ fills = <<[pc |-> "start"]>>

\* fill up to batch.execute().await: the calls are enqueued, unless the
\* ensure! on the gas parameters returns first.
FillCall ==
    /\ fills[1].pc = "start"
    /\ \E tx \in FillOneRequests :
          fills' = <<[pc |-> IF GasConflict(tx) THEN "returned" ELSE "executing",
                      tx |-> tx,
                      queue |-> FillQueue(tx, chain_id_cache),
                      answers |-> <<>>,
                      filled |-> IF GasConflict(tx)
                                 THEN Some(Fill(tx, chain_id_cache, "down").result)
                                 ELSE None]>>
    /\ UNCHANGED <<codec_vars, config_vars, node_vars>>

\* What fill leaves behind when it returns or panics.
FillReturned(answers, filled) ==
    /\ chain_id_cache' = filled.cache
    /\ upstream' = upstream \o Tag(1, filled.calls)
    /\ fills' = <<[fills[1] EXCEPT
                     !.pc = IF IsPanic(filled.result) THEN "panicked" ELSE "returned",
                     !.answers = answers,
                     !.filled = Some(filled.result)]>>

\* fill from batch.execute().await on, for the answers of the node.
FillAnswer ==
    /\ fills[1].pc = "executing"
    /\ \E answers \in [1..Len(fills[1].queue) -> AllOutcomes] :
          /\ \A k \in 1..Len(answers) : answers[k] \in QueryOutcomes(fills[1].queue[k])
          /\ FillReturned(answers,
                 FillExecuted(fills[1].tx, chain_id_cache, fills[1].queue,
                     ExecuteMany(FillBatchRequests(fills[1].queue),
                                 QueryReply(fills[1].queue, answers)),
                     <<[kind |-> "execute_many",
                        requests |-> FillBatchRequests(fills[1].queue)]>>))
    /\ UNCHANGED <<codec_vars, config_vars, pc, input, outcomes, remote_reply,
                   remote_result, signer_calls, signatures, log, output>>

NextFill == FillCall \/ FillAnswer

SpecFill == InitFill /\ [][NextFill]_vars

(***************************************************************************)
(* SpecEth: the client of node/eth.rs on its own.  One Batch is built from *)
(* typed calls, each returning a handle, and executed against a remote     *)
(* node; the handles are awaited one by one.  Beside it Eth::chain_id is   *)
(* called directly.  Both read and fill the ChainIdCache.                  *)
(***************************************************************************)
\* The calls one batch holds at most, and the direct calls of chain_id.
MaxCalls == 2
MaxDirect == 2

\* Batch::get_transaction_count and Batch::gas_price: typed calls that
\* always enqueue a request.
BatchQueries == {"eth_getTransactionCount", "eth_gasPrice"}

\* The nodes a direct call meets.
DirectNodes == {"down", "honest", "error"}

\* The nodes the batch meets.
BatchNodes == {"down", "honest", "reversed", "short", "error"}

\* A oneshot channel: the sender is in the queue, has sent, or was dropped.
ChannelOpen == [state |-> "open"]
ChannelSent(response) == [state |-> "sent", response |-> response]
ChannelClosed == [state |-> "closed"]

\* The future a typed call returns; slot is the place of its request in
\* the queue, 0 when ChainIdCache::with found the chain ID in the cache.
Handle(method, slot, seen) ==
    [method |-> method, slot |-> slot, seen |-> seen, resolved |-> None]

\* Batch::execute: the channels are zipped with the responses in order and
\* each is sent its response; the senders left over are dropped, as all of
\* them are when execute_many fails.
ExecuteSend(queue, executed) ==
    [k \in 1..Len(queue) |->
        IF executed.ok /\ k <= Len(executed.value)
        THEN ChannelSent(executed.value[k]) ELSE ChannelClosed]

\* The async block of Batch::call, then the typed call's conversion.
HandleOutput(channel) ==
    IF channel.state = "closed" THEN Err(Anyhow("channel closed"))
    ELSE IF ~channel.response.result.ok THEN Err(Anyhow("rpc error"))
    ELSE DeserializeQuantity(channel.response.result.value)

\* Eth::call for eth_chainId: execute, response.result?, from_value.
CallOutput(executed) ==
    IF ~executed.ok THEN Err(Anyhow("client error"))
    ELSE IF ~executed.value.result.ok THEN Err(Anyhow("rpc error"))
    ELSE DeserializeQuantity(executed.value.result.value)

\* A cache that is emptied when a fetch fails.
MutStoreFetchedClears(result) ==
    chain_id_cache' = IF result.ok THEN Some(result.value) ELSE None

\* The async block of ChainIdCache::with: a fetched chain ID is stored.
StoreFetched(result) ==
    chain_id_cache' = IF result.ok THEN Some(result.value) ELSE chain_id_cache

InitEth ==
    /\ codec_pc = "off"
    /\ codec_value = None
    /\ codec_wire = None
    /\ codec_decoded = None
    /\ validator = FALSE
    /\ debug_assertions = FALSE
    /\ lua = None
    /\ chain_id_cache \in {None, Some(Answer("eth_chainId").v.n)}
    /\ pc = "off"
    /\ input = NoInput
    /\ outcomes = <<>>
    /\ upstream = <<>>
    /\ remote_reply = None
    /\ remote_result = None
    /\ signer_calls = <<>>
    /\ signatures = <<>>
    /\ log = <<>>
    /\ output = None
    /\ fills = <<[pc |-> "building", prepared |-> 0, queue |-> <<>>, channels |-> <<>>,
                  handles |-> <<>>, executed |-> None, direct |-> <<>>]>>

eth_unchanged == <<codec_vars, config_vars, pc, input, outcomes, remote_reply,
                   remote_result, signer_calls, signatures, log, output>>

\* Batch::call: the request is prepared and pushed with its sender.
Pushed(batch, method) ==
    [batch EXCEPT
        !.prepared = @ + 1,
        !.queue = Append(@, prepare(method, batch.prepared + 1)),
        !.channels = Append(@, ChannelOpen),
        !.handles = Append(@, Handle(method, Len(batch.queue) + 1, None))]

Called(method) ==
    \E h \in 1..Len(fills[1].handles) : fills[1].handles[h].method = method

\* Batch::chain_id: ChainIdCache::with reads the cache and calls f only
\* when it is empty.
BatchChainId ==
    /\ fills[1].pc = "building"
    /\ Len(fills[1].handles) < MaxCalls
    /\ ~Called("eth_chainId")
    /\ fills' = <<IF IsSome(chain_id_cache)
                  THEN [fills[1] EXCEPT
                           !.handles = Append(@, Handle("eth_chainId", 0, chain_id_cache))]
                  ELSE Pushed(fills[1], "eth_chainId")>>
    /\ UNCHANGED <<eth_unchanged, chain_id_cache, upstream>>

\* Batch::get_transaction_count, Batch::gas_price.
BatchQuery ==
    /\ fills[1].pc = "building"
    /\ Len(fills[1].handles) < MaxCalls
    /\ \E method \in BatchQueries :
          /\ ~Called(method)
          /\ fills' = <<Pushed(fills[1], method)>>
    /\ UNCHANGED <<eth_unchanged, chain_id_cache, upstream>>

\* Batch::execute
BatchExecute ==
    /\ fills[1].pc = "building"
    /\ \E node \in BatchNodes :
          LET executed == ExecuteMany(fills[1].queue,
                                      RemoteBatchReply(node, fills[1].queue))
          IN fills' = <<[fills[1] EXCEPT
                            !.pc = "executed",
                            !.executed = Some(executed),
                            !.channels = ExecuteSend(fills[1].queue, executed)]>>
    /\ upstream' = Append(upstream, [for |-> 1,
                       what |-> [kind |-> "execute_many", requests |-> fills[1].queue]])
    /\ UNCHANGED <<eth_unchanged, chain_id_cache>>

\* A handle is awaited: it resolves from the cache, or once its channel has
\* a response or is closed.
HandleAwait ==
    \E h \in 1..Len(fills[1].handles) :
        LET handle == fills[1].handles[h]
        IN /\ IsNone(handle.resolved)
           /\ IF handle.slot = 0
              THEN /\ fills' = <<[fills[1] EXCEPT
                                     !.handles[h].resolved = Some(Ok(Unwrap(handle.seen)))]>>
                   /\ UNCHANGED chain_id_cache
              ELSE /\ fills[1].channels[handle.slot].state /= "open"
                   /\ fills' = <<[fills[1] EXCEPT !.handles[h].resolved =
                                     Some(HandleOutput(fills[1].channels[handle.slot]))]>>
                   /\ IF handle.method = "eth_chainId"
                      THEN StoreFetched(HandleOutput(fills[1].channels[handle.slot]))
                      ELSE UNCHANGED chain_id_cache
           /\ UNCHANGED <<eth_unchanged, upstream>>

\* Eth::chain_id is called: ChainIdCache::with reads the cache.
EthChainId ==
    /\ Len(fills[1].direct) < MaxDirect
    /\ fills' = <<[fills[1] EXCEPT !.direct =
                      Append(@, [seen |-> chain_id_cache, requested |-> FALSE,
                                 result |-> None])]>>
    /\ UNCHANGED <<eth_unchanged, chain_id_cache, upstream>>

\* The future of Eth::chain_id is awaited: the cached value, or Eth::call.
EthChainIdAwait ==
    \E d \in 1..Len(fills[1].direct) :
        LET call == fills[1].direct[d]
            request == prepare("eth_chainId", fills[1].prepared + 1)
        IN /\ IsNone(call.result)
           /\ IF IsSome(call.seen)
              THEN /\ fills' = <<[fills[1] EXCEPT
                                     !.direct[d].result = Some(Ok(Unwrap(call.seen)))]>>
                   /\ UNCHANGED <<chain_id_cache, upstream>>
              ELSE \E node \in DirectNodes :
                      LET output_ == CallOutput(Execute(request, RemoteReply(node, request)))
                      IN /\ fills' = <<[fills[1] EXCEPT
                                           !.prepared = @ + 1,
                                           !.direct[d].requested = TRUE,
                                           !.direct[d].result = Some(output_)]>>
                         /\ StoreFetched(output_)
                         /\ upstream' = Append(upstream, [for |-> 0,
                                what |-> [kind |-> "execute", requests |-> <<request>>]])
           /\ UNCHANGED eth_unchanged

NextEth ==
    \/ BatchChainId
    \/ BatchQuery
    \/ BatchExecute
    \/ HandleAwait
    \/ EthChainId
    \/ EthChainIdAwait

SpecEth == InitEth /\ [][NextEth]_vars

(***************************************************************************)
(* SpecValidator: signing calls reaching the Validator from handler        *)
(* threads that run at the same time.  validate() locks the Lua engine,    *)
(* looks the handler up and calls it, and the guard is dropped when        *)
(* validate() returns; the inner signer is called after that.  The hooks   *)
(* return, and a thread that can take a step is scheduled in the end.      *)
(***************************************************************************)
\* The signing calls in flight at once.
MaxValidations == 2

\* The accounts the calls name, and what they sign.
ValidationAccounts == {"0xA0", Stranger}
ValidationMessage == "0x68656c6c6f"

\* lock() takes the mutex without waiting for it to be free.
MutValidateLockBarges(c) ==
    /\ fills[c].pc = "waiting"
    /\ lua' = Some(c)
    /\ fills' = [fills EXCEPT ![c].pc = "locked"]
    /\ UNCHANGED <<codec_vars, node_vars, validator, debug_assertions>>

InitValidator ==
    /\ codec_pc = "off"
    /\ codec_value = None
    /\ codec_wire = None
    /\ codec_decoded = None
    /\ validator = TRUE
    /\ debug_assertions = FALSE
    /\ lua = None
    /\ chain_id_cache = None
    /\ pc = "off"
    /\ input = NoInput
    /\ outcomes = <<>>
    /\ upstream = <<>>
    /\ remote_reply = None
    /\ remote_result = None
    /\ signer_calls = <<>>
    /\ signatures = <<>>
    /\ log = <<>>
    /\ output = None
    /\ fills = [c \in 1..MaxValidations |-> [pc |-> "start"]]

\* Validator::sign_message is called and validate() calls lock().
SignMessage(c) ==
    /\ fills[c].pc = "start"
    /\ \E account \in ValidationAccounts :
          fills' = [fills EXCEPT ![c] = [pc |-> "waiting", account |-> account]]
    /\ UNCHANGED <<codec_vars, config_vars, node_vars>>

\* self.lua.lock().unwrap() returns the guard: the mutex was free.
ValidateLock(c) ==
    /\ fills[c].pc = "waiting"
    /\ lua = None
    /\ lua' = Some(c)
    /\ fills' = [fills EXCEPT ![c].pc = "locked"]
    /\ UNCHANGED <<codec_vars, node_vars, validator, debug_assertions>>

\* validate() with the guard: the handler is looked up and called; when
\* the module has none validate() returns at once and drops the guard.
ValidateHandler(c) ==
    /\ fills[c].pc = "locked"
    /\ \E hook \in HookOutcomes :
          /\ fills' = [fills EXCEPT ![c] =
                [@ EXCEPT !.pc = IF hook = "missing" THEN "vetoed" ELSE "running"]
                    @@ [hook |-> hook]]
          /\ lua' = IF hook = "missing" THEN None ELSE lua
          /\ signer_calls' = signer_calls
                \o Tag(c, <<SignerCall("Validator", "signed message", Some(hook))>>)
    /\ UNCHANGED <<codec_vars, validator, debug_assertions, chain_id_cache, pc, input,
                   outcomes, upstream, remote_reply, remote_result, signatures, log, output>>

\* The handler returns: ensure!(ok), and the guard is dropped.
HandlerReturns(c) ==
    /\ fills[c].pc = "running"
    /\ lua' = None
    /\ fills' = [fills EXCEPT ![c].pc =
                    IF Validate("signed message", fills[c].hook).ok
                    THEN "validated" ELSE "vetoed"]
    /\ UNCHANGED <<codec_vars, node_vars, validator, debug_assertions>>

\* self.inner.sign_message(account, message)
InnerSignMessage(c) ==
    /\ fills[c].pc = "validated"
    /\ LET signing == LogRecorderSign("signed message", fills[c].account, ValidationMessage)
       IN /\ signer_calls' = signer_calls \o Tag(c, signing.trace)
          /\ signatures' = signatures \o Tag(c, signing.signed)
          /\ log' = log \o Tag(c, signing.logged)
    /\ fills' = [fills EXCEPT ![c].pc = "done"]
    /\ UNCHANGED <<codec_vars, config_vars, chain_id_cache, pc, input, outcomes, upstream,
                   remote_reply, remote_result, output>>

NextValidator ==
    \E c \in 1..MaxValidations :
        \/ SignMessage(c)
        \/ ValidateLock(c)
        \/ ValidateHandler(c)
        \/ HandlerReturns(c)
        \/ InnerSignMessage(c)

\* The threads are scheduled: one that holds the guard goes on, one that
\* can take the mutex takes it.
FairValidator ==
    \A c \in 1..MaxValidations :
        /\ WF_vars(ValidateLock(c))
        /\ WF_vars(ValidateHandler(c))
        /\ WF_vars(HandlerReturns(c))

SpecValidator == InitValidator /\ [][NextValidator]_vars /\ FairValidator

(***************************************************************************)
(* Properties                                                              *)
(***************************************************************************)
\* A member of a wire object that is present (with any value, null included).
Present(member) == member.m /= "absent"

\* A well-formed JSON-RPC 2.0 response object: version, id, and exactly one
\* of the members result and error.
WellFormed(w) ==
    /\ w.jsonrpc = Val(V2)
    /\ Present(w.id)
    /\ Present(w.result) /= Present(w.error)

\* The Response the handler answered a single request with.
Answered == Unwrap(output).response

\* The requests sent upstream in the HTTP calls made so far.
SentUpstream ==
    UNION {{upstream[k].what.requests[j] : j \in 1..Len(upstream[k].what.requests)} :
           k \in 1..Len(upstream)}

\* The HTTP calls made by the handler itself to forward requests.
ForwardingCalls == SelectSeq(upstream, LAMBDA call : call.for = 0)

\* C1 (as claimed): for every batch of N >= 1 requests of which some are
\* forwarded, and every upstream reply to the forwarded sub-batch,
\* handle_requests returns exactly N responses without panicking and leaves
\* no upstream response unconsumed.
C1_ExactlyNResponses ==
    (input.kind = "Batch" /\ Len(input.requests) >= 1 /\ IsSome(remote_result)
        /\ RemoteRequests(outcomes) /= <<>>) =>
        /\ pc = "done"
        /\ Len(Unwrap(output).responses) = Len(input.requests)
        /\ Merge(Slots(outcomes),
                 RemoteResponses(RemoteRequests(outcomes),
                                 Unwrap(remote_result))).leftover = <<>>

\* C2 (as claimed): the response at position i of the output of a batch
\* carries the id of the request at position i, whatever order the upstream
\* lists its responses in.
C2_PositionCarriesId ==
    (input.kind = "Batch" /\ pc = "done") =>
        \A i \in 1..Len(input.requests) :
            /\ i <= Len(Unwrap(output).responses)
            /\ Unwrap(output).responses[i].id = input.requests[i].id

\* C3 (as claimed): when execute_many(reqs) succeeds for a non-empty reqs it
\* returns exactly len(reqs) responses, the k-th carrying the id of the k-th request; a
\* reply with another number of responses or a foreign id makes it fail.
C3_ExecuteManyCorrelated ==
    (input.kind = "Batch" /\ IsSome(remote_result) /\ Unwrap(remote_result).ok
        /\ RemoteRequests(outcomes) /= <<>>) =>
        LET requests == RemoteRequests(outcomes)
            responses == Unwrap(remote_result).value
        IN /\ Len(responses) = Len(requests)
           /\ \A k \in 1..Len(requests) : responses[k].id = requests[k].id

C5_RemoteResponseVerbatim ==
    (input.kind = "Request" /\ pc = "done" /\ IsSome(remote_reply)
        /\ Unwrap(remote_reply).kind = "response"
        /\ WellFormed(Unwrap(remote_reply).response)
        /\ Unwrap(remote_reply).response.id = SerializeId(input.request.id)) =>
        /\ Serialize(Answered) = Unwrap(remote_reply).response
        /\ (~Answered.result.ok /\ Answered.result.error.code = -32603) =>
               /\ Present(Unwrap(remote_reply).response.error)
               /\ Unwrap(remote_reply).response.error.v.code = -32603

\* C6 (as claimed): for every Response r, decode(encode(r)) succeeds and
\* equals r.
C6_RoundTrip ==
    (codec_pc = "decoded" /\ IsSome(codec_value)) =>
        Unwrap(codec_decoded) = Ok(Unwrap(codec_value))

\* C7 (as claimed): every encoded Response carries exactly one of the members
\* result and error, and decoding fails when both or neither is present.
C7_ResultXorError ==
    /\ (IsSome(codec_value) /\ IsSome(codec_wire)) =>
           (Present(Unwrap(codec_wire).result) /= Present(Unwrap(codec_wire).error))
    /\ (codec_pc = "decoded" /\ Unwrap(codec_decoded).ok) =>
           (Present(Unwrap(codec_wire).result) /= Present(Unwrap(codec_wire).error))

\* C8 (as claimed): a single eth_sendTransaction whose fill and signing
\* succeed makes exactly one forwarding call, eth_sendRawTransaction with the
\* signed transaction as its only parameter and the original id and jsonrpc,
\* and the client receives the upstream's response to it; if fill, policy or
\* signing fails, no eth_sendRawTransaction is sent and the client receives
\* a local error.
C8_SendTransaction ==
    (input.kind = "Request" /\ input.request.method = "eth_sendTransaction"
        /\ pc = "done") =>
        IF outcomes[1].kind = "Remote"
        THEN /\ Len(signatures) = 1
             /\ Len(ForwardingCalls) = 1
             /\ LET sent == ForwardingCalls[1].what.requests[1]
                IN /\ sent.method = "eth_sendRawTransaction"
                   /\ sent.id = input.request.id
                   /\ sent.jsonrpc = input.request.jsonrpc
                   /\ Len(Unwrap(sent.params).items) = 1
                   /\ Unwrap(sent.params).items[1].v.hex.signature = signatures[1].what
             /\ Unwrap(remote_reply).kind = "response" =>
                    Serialize(Answered) = Unwrap(remote_reply).response
        ELSE /\ \A sent \in SentUpstream : sent.method /= "eth_sendRawTransaction"
             /\ ~Answered.result.ok

\* The request names the account to sign with as its first parameter.
HasFrom(request) ==
    /\ IsSome(request.params)
    /\ Unwrap(request.params).kind = "Array"
    /\ Len(Unwrap(request.params).items) >= 1
    /\ \/ Unwrap(request.params).items[1].t = "address"
       \/ /\ Unwrap(request.params).items[1].t = "object"
          /\ "from" \in DOMAIN Unwrap(request.params).items[1].obj

\* The account a signing request asks to sign with.
From(request) ==
    LET item == Unwrap(request.params).items[1]
    IN IF item.t = "address" THEN item.a ELSE item.obj.from

SigningMethods ==
    {"eth_sign", "eth_signTypedData", "eth_signTransaction", "eth_sendTransaction"}

C10_UnknownSignerInvalidParams ==
    (input.kind = "Request" /\ pc = "done"
        /\ input.request.method \in SigningMethods
        /\ HasFrom(input.request)
        /\ From(input.request) = Stranger) =>
        /\ signatures = <<>>
        /\ ~Answered.result.ok
        /\ Answered.result.error.code = -32602

\* The methods of the transaction arm of mux_handler.
TransactionMethods == {"eth_sendTransaction", "eth_signTransaction"}

\* The "encountered error" records written while handling request i.
EncounteredFor(i) ==
    SelectSeq(log, LAMBDA record :
        record.for = i /\ record.what.message = "encountered error")

\* Handling request i reached no signer of the stack.
NoSignerCall(i) == \A k \in 1..Len(signer_calls) : signer_calls[k].for /= i

\* The messages of the ensure! checks of fill that the client's request fails.
ClientInconsistencies ==
    {"specified both gas price and London gas parameters",
     "chain ID used for signing does not match node",
     "only signing transactions for current nonce permitted"}

\* C11 (as claimed): a single transaction request whose fill fails is
\* answered with error -32602 when fill rejected it for client inconsistency
\* (chain ID mismatch, nonce mismatch, gas price together with London gas
\* parameters) and with -32603 for every other fill failure.
C11_FillErrorCodes ==
    (input.kind = "Request" /\ pc = "done"
        /\ input.request.method \in TransactionMethods
        /\ NoSignerCall(1) /\ EncounteredFor(1) /= <<>>) =>
        /\ ~Answered.result.ok
        /\ Answered.result.error.code =
               IF EncounteredFor(1)[1].what.err.msg \in ClientInconsistencies
               THEN -32602 ELSE -32603

\* The params of a transaction method's request decode into the tuple
\* (TransactionRequest,).
DecodesTransaction(request) ==
    /\ request.method \in TransactionMethods
    /\ DeserializeTuple(request.params, <<"object">>)
    /\ DeserializeTransactionRequest(Unwrap(request.params).items[1].obj).ok

\* The TransactionRequest that request i of the input carries.
TransactionRequestOf(i) ==
    DeserializeTransactionRequest(Unwrap(Elements[i].params).items[1].obj).value

\* C12: a transaction request that sets gasPrice together with maxFeePerGas
\* or maxPriorityFeePerGas is rejected by fill before its batch is executed:
\* handling it makes no upstream call and reaches no signer, its outcome is a
\* local error, and a single such request is answered with no upstream call
\* at all (nothing is forwarded).
C12_GasConflictRejectedEarly ==
    \A i \in 1..Len(outcomes) :
        (DecodesTransaction(Elements[i])
            /\ GasConflict(TransactionRequestOf(i))) =>
            /\ \A k \in 1..Len(upstream) : upstream[k].for /= i
            /\ NoSignerCall(i)
            /\ \A k \in 1..Len(signatures) : signatures[k].for /= i
            /\ outcomes[i].kind = "Internal"
            /\ ~outcomes[i].response.result.ok
            /\ input.kind = "Request" =>
                   /\ upstream = <<>>
                   /\ pc = "done" => Answered = outcomes[i].response

\* C12 witness: a single eth_sendTransaction with gasPrice and maxFeePerGas
\* was answered with an error.
C12_Witness ==
    /\ pc = "done"
    /\ input.kind = "Request"
    /\ input.request.method = "eth_sendTransaction"
    /\ DecodesTransaction(input.request)
    /\ GasConflict(TransactionRequestOf(1))
    /\ ~Answered.result.ok

\* The chain ID a signed transaction carries (an Option in a legacy one).
ChainIdOf(inner) ==
    IF inner.type = "Legacy" THEN Unwrap(inner.chain_id) ELSE inner.chain_id

\* The signatures made over transactions.
IsTransactionSignature(signature) == signature.what.digest.kind = "signed transaction"

\* C13 (as claimed): a transaction is signed with the chain ID the cache
\* holds when it is signed, which is the chain ID the request supplied when
\* it supplied one (a request supplying another is not signed).
C13_SignedChainId ==
    [][\A c \in 1..MaxFills :
          (fills[c].pc = "executing" /\ fills'[c].pc = "returned") =>
              \A k \in (Len(signatures) + 1)..Len(signatures') :
                  /\ IsSome(chain_id_cache')
                  /\ ChainIdOf(signatures'[k].what.digest.data) = Unwrap(chain_id_cache')
                  /\ IsSome(fills[c].tx.chain_id) =>
                         ChainIdOf(signatures'[k].what.digest.data)
                             = Unwrap(fills[c].tx.chain_id)]_vars

\* C18 (as claimed): once the chain ID cache holds a value, no step of any
\* interleaving of the fills changes it.
C18_CacheImmutable ==
    [][IsSome(chain_id_cache) => chain_id_cache' = chain_id_cache]_vars

\* The transaction count the remote node returns for the account.
NodeTransactionCount == Answer("eth_getTransactionCount").v.n

\* C14 (as claimed): every transaction signed carries the transaction count
\* the node returned during its fill as its nonce; a request that supplies
\* another nonce, lower or higher, is answered with an error and not signed.
C14_SignedNonce ==
    /\ \A k \in 1..Len(signatures) :
          IsTransactionSignature(signatures[k]) =>
              signatures[k].what.digest.data.nonce = NodeTransactionCount
    /\ \A i \in 1..Len(outcomes) :
          (DecodesTransaction(Elements[i])
              /\ IsSome(TransactionRequestOf(i).nonce)
              /\ Unwrap(TransactionRequestOf(i).nonce) /= NodeTransactionCount) =>
              /\ \A k \in 1..Len(signatures) : signatures[k].for /= i
              /\ outcomes[i].kind = "Internal"
              /\ ~outcomes[i].response.result.ok

\* The calls of request i that reached the Validator and were vetoed: the
\* hook returned false, was missing, or the engine raised an error.
Vetoed(i) ==
    \E k \in 1..Len(signer_calls) :
        /\ signer_calls[k].for = i
        /\ signer_calls[k].what.signer = "Validator"
        /\ signer_calls[k].what.hook /= Some("true")

\* C15: with the Validator configured, a signing attempt the hook vetoes
\* (message, transaction or typed data) never reaches the inner signer: no
\* call of the LogRecorder or the Wallet, no signature, no log record of a
\* signature, and the request is not rewritten to eth_sendRawTransaction
\* (a single eth_sendTransaction sends none upstream).
C15_VetoStopsSigning ==
    \A i \in 1..Len(outcomes) :
        Vetoed(i) =>
            /\ \A k \in 1..Len(signer_calls) :
                  signer_calls[k].for = i =>
                      signer_calls[k].what.signer \in {"BoxSigner", "Validator"}
            /\ \A k \in 1..Len(signatures) : signatures[k].for /= i
            /\ \A k \in 1..Len(log) : log[k].for = i => log[k].what.level /= "info"
            /\ outcomes[i].kind = "Internal"
            /\ input.kind = "Request" =>
                   \A sent \in SentUpstream : sent.method /= "eth_sendRawTransaction"

\* C15 witness: a single eth_sendTransaction was filled, vetoed by the hook
\* returning false, and answered.
C15_Witness ==
    /\ pc = "done"
    /\ input.kind = "Request"
    /\ input.request.method = "eth_sendTransaction"
    /\ \E k \in 1..Len(signer_calls) :
          signer_calls[k].what.signer = "Validator"
              /\ signer_calls[k].what.hook = Some("false")
    /\ upstream /= <<>>

\* C16 (as claimed): a single signing request the policy hook vetoes is
\* answered with error -32602.
C16_VetoInvalidParams ==
    (input.kind = "Request" /\ pc = "done" /\ Vetoed(1)) =>
        /\ ~Answered.result.ok
        /\ Answered.result.error.code = -32602

\* The chain ID Eth::chain_id() gives: the cached one, else the node's answer.
NodeChainId ==
    IF IsSome(chain_id_cache) THEN Unwrap(chain_id_cache)
    ELSE Answer("eth_chainId").v.n

\* The TypedData a single eth_signTypedData request carries.
TypedDataOf(request) == DeserializeTypedData(Unwrap(request.params).items[2].raw)

\* C17 (as claimed): a single eth_signTypedData from a derived account that
\* the policy does not veto is rejected without a signature when its domain
\* chainId is present and differs from the node's chain ID, and is signed
\* when the chainId is absent or equal (as number, decimal string or
\* 0x-hex string).
C17_TypedDataChainId ==
    (input.kind = "Request" /\ pc = "done"
        /\ input.request.method = "eth_signTypedData"
        /\ DeserializeTuple(input.request.params, <<"address", "typedData">>)
        /\ TypedDataOf(input.request).ok
        /\ From(input.request) \in DOMAIN WalletAccounts
        /\ ~Vetoed(1)) =>
        IF IsSome(TypedDataOf(input.request).value.chain_id)
              /\ Unwrap(TypedDataOf(input.request).value.chain_id) /= NodeChainId
        THEN signatures = <<>> /\ ~Answered.result.ok
        ELSE Len(signatures) = 1 /\ Answered.result.ok

\* C19: when the forwarding call of a single remote-bound request (a
\* rewritten eth_sendTransaction included) fails at transport level, the
\* client receives error -32603 under the id of its request.
C19_TransportFailureSingle ==
    (input.kind = "Request" /\ pc = "done" /\ outcomes[1].kind = "Remote"
        /\ remote_reply = Some(Failure)) =>
        /\ ~Answered.result.ok
        /\ Answered.result.error.code = -32603
        /\ Answered.id = input.request.id
        /\ Answered.jsonrpc = input.request.jsonrpc

\* C19 witness: an eth_sendTransaction was filled, signed and rewritten, and
\* the upstream was unreachable for the forwarding call.
C19_Witness ==
    /\ pc = "done"
    /\ input.kind = "Request"
    /\ input.request.method = "eth_sendTransaction"
    /\ outcomes[1].kind = "Remote"
    /\ Len(signatures) = 1
    /\ remote_reply = Some(Failure)
    /\ ~Answered.result.ok

\* C20: when the execute_many of a batch fails, the batch is answered with
\* one response per request: at every remote-bound position error -32603
\* under the id of the request at that position, at every other position the
\* locally produced response.
C20_BatchUpstreamFailure ==
    (input.kind = "Batch" /\ IsSome(remote_result) /\ ~Unwrap(remote_result).ok) =>
        /\ pc = "done"
        /\ Len(Unwrap(output).responses) = Len(input.requests)
        /\ \A i \in 1..Len(input.requests) :
              IF outcomes[i].kind = "Remote"
              THEN /\ ~Unwrap(output).responses[i].result.ok
                   /\ Unwrap(output).responses[i].result.error.code = -32603
                   /\ Unwrap(output).responses[i].id = input.requests[i].id
              ELSE Unwrap(output).responses[i] = outcomes[i].response

\* C20 witness: a batch with a local result first and a remote-bound request
\* second was answered after its execute_many failed.
C20_Witness ==
    /\ pc = "done"
    /\ input.kind = "Batch"
    /\ Len(input.requests) = 2
    /\ outcomes[1].kind = "Internal"
    /\ outcomes[1].response.result.ok
    /\ outcomes[2].kind = "Remote"
    /\ IsSome(remote_result)
    /\ ~Unwrap(remote_result).ok

\* The handler answered with the single error response of the given code
\* under the id null.
AnsweredError(code) ==
    /\ IsSome(output)
    /\ Unwrap(output).kind = "Response"
    /\ ~Answered.result.ok
    /\ Answered.result.error.code = code
    /\ Answered.id = IdNull

\* C21: an empty batch is answered with an error response of code -32600,
\* not with an empty array of responses.
C21_EmptyBatchInvalid ==
    (input.kind = "Batch" /\ input.requests = <<>> /\ pc \in {"done", "panicked"}) =>
        AnsweredError(-32600)

\* A JSON value that is a request object: version "2.0", a method name, an
\* id that is a string, a number or null, and params, if any, structured.
ValidRequest(value) ==
    /\ value.json = "object"
    /\ {"jsonrpc", "method", "id"} \subseteq DOMAIN value.map
    /\ value.map.jsonrpc = ValueString(V2)
    /\ value.map.method.json = "string"
    /\ value.map.id.json \in {"string", "number", "null"}
    /\ "params" \in DOMAIN value.map =>
          value.map.params.json \in {"array", "object", "null"}

\* A JSON array of one or more request objects.
ValidBatch(value) ==
    /\ value.json = "array"
    /\ \A k \in 1..Len(value.items) :
          "json" \in DOMAIN value.items[k] /\ ValidRequest(value.items[k])

\* The body being handled is JSON, and neither a request nor a batch.
InvalidPayload ==
    /\ "payload" \in DOMAIN input
    /\ input.payload.json /= "invalid"
    /\ ~ValidRequest(input.payload)
    /\ ~ValidBatch(input.payload)

\* C22: a JSON payload that is neither a valid request nor an array of valid
\* requests is answered with the single response of id null and error
\* -32600, and none of it is processed: no signer call, no upstream call.
C22_InvalidPayloadRejected ==
    InvalidPayload =>
        /\ signer_calls = <<>>
        /\ upstream = <<>>
        /\ pc /= "panicked"
        /\ pc = "done" => AnsweredError(-32600)

\* C23: a body that is not JSON is answered with a JSON-RPC error response
\* of code -32700.
C23_ParseError ==
    (input.kind = "Rejected" /\ pc = "done") => AnsweredError(-32700)

\* The typed parameter tuple of a local method, as the JSON types of its
\* members.
ParamTypes(method) ==
    CASE method = "eth_accounts" -> <<>>
      [] method \in TransactionMethods -> <<"object">>
      [] method = "eth_sign" -> <<"address", "bytes">>
      [] method = "eth_signTypedData" -> <<"address", "typedData">>

\* The params of a request for a local method decode into its tuple.
ParamsDecode(request) ==
    /\ DeserializeTuple(request.params, ParamTypes(request.method))
    /\ request.method = "eth_signTypedData" => TypedDataOf(request).ok
    /\ request.method \in TransactionMethods => DecodesTransaction(request)

\* The response at position i of what the handler answered.
AnsweredAt(i) ==
    IF input.kind = "Request" THEN Answered ELSE Unwrap(output).responses[i]

\* C24: a request for a local method whose params (absent, positional or
\* named) do not decode into the method's parameter tuple is answered with
\* error -32602 under its own id, and the handler body does not run: no
\* signer call and no upstream call is made for it.
C24_UndecodableParams ==
    \A i \in 1..Len(outcomes) :
        (Elements[i].method \in LocalMethods /\ ~ParamsDecode(Elements[i])) =>
            /\ outcomes[i].kind = "Internal"
            /\ ~outcomes[i].response.result.ok
            /\ outcomes[i].response.result.error.code = -32602
            /\ outcomes[i].response.id = Elements[i].id
            /\ NoSignerCall(i)
            /\ \A k \in 1..Len(upstream) : upstream[k].for /= i
            /\ input.kind = "Request" => Len(upstream) = 0
            /\ pc = "done" => AnsweredAt(i) = outcomes[i].response

\* C24 witness: an eth_sign with named params was answered -32602 in a batch
\* whose other request was forwarded.
C24_Witness ==
    /\ pc = "done"
    /\ input.kind = "Batch"
    /\ Len(input.requests) = 2
    /\ input.requests[1].method = "eth_sign"
    /\ IsSome(input.requests[1].params)
    /\ Unwrap(input.requests[1].params).kind = "Object"
    /\ outcomes[2].kind = "Remote"
    /\ Unwrap(output).responses[1].result = Err(invalid_params)
    /\ Unwrap(output).responses[1].id = input.requests[1].id

\* The request of the fill, and the Result fill returned.
FillTx == fills[1].tx
Filled == Unwrap(fills[1].filled)
FilledArgs == Filled.value.transaction.args
FilledInner == Filled.value.transaction.inner

\* fill has returned Ok((account, transaction)).
FillSucceeded == fills[1].pc = "returned" /\ Filled.ok

\* The fee fields the request supplies.
SuppliedFees ==
    {name \in {"gasPrice", "maxFeePerGas", "maxPriorityFeePerGas"} :
        \/ name = "gasPrice" /\ IsSome(FillTx.gas_price)
        \/ name = "maxFeePerGas" /\ IsSome(FillTx.max_fee_per_gas)
        \/ name = "maxPriorityFeePerGas" /\ IsSome(FillTx.max_priority_fee_per_gas)}

\* The fee queries among the calls the fill enqueued.
EnqueuedFeeQueries ==
    {fills[1].queue[k] : k \in 1..Len(fills[1].queue)}
        \cap {"eth_gasPrice", "eth_feeHistory", "eth_maxPriorityFeePerGas"}

\* C25: when fill returns success, the filled request holds every field the
\* selected transaction type requires (chainId, nonce and gas; gasPrice for
\* legacy and EIP-2930; maxFeePerGas and maxPriorityFeePerGas for EIP-1559),
\* and no fill panics on a missing field, whatever members the request
\* supplies and however the queries end.
C25_FilledFieldsPresent ==
    /\ FillSucceeded =>
          /\ IsSome(FilledArgs.chain_id)
          /\ IsSome(FilledArgs.nonce)
          /\ IsSome(FilledArgs.gas)
          /\ IF FilledInner.type = "Eip1559"
             THEN IsSome(FilledArgs.max_fee_per_gas)
                      /\ IsSome(FilledArgs.max_priority_fee_per_gas)
             ELSE IsSome(FilledArgs.gas_price)
    /\ fills[1].pc = "panicked" =>
          Filled.error.msg /= "called Option::unwrap() on a None value"

\* C25 witness: a request supplying only maxPriorityFeePerGas was filled
\* with the base fee fetched.
C25_Witness ==
    /\ FillSucceeded
    /\ SuppliedFees = {"maxPriorityFeePerGas"}
    /\ IsSome(FilledArgs.max_fee_per_gas)
    /\ FilledInner.type = "Eip1559"

\* C28: the fee queries fill enqueues are decided by the fee fields the
\* request supplies: none -> gas price, base fee and priority fee; only
\* gasPrice -> none; only maxPriorityFeePerGas -> base fee; only
\* maxFeePerGas -> priority fee; both London fields -> none (and none when
\* gasPrice comes with a London field, which fill rejects).
C28_FeeQueriesBySupplied ==
    fills[1].pc /= "start" =>
        EnqueuedFeeQueries =
            CASE SuppliedFees = {} ->
                    {"eth_gasPrice", "eth_feeHistory", "eth_maxPriorityFeePerGas"}
              [] SuppliedFees = {"maxPriorityFeePerGas"} -> {"eth_feeHistory"}
              [] SuppliedFees = {"maxFeePerGas"} -> {"eth_maxPriorityFeePerGas"}
              [] OTHER -> {}

\* C28 witness: a fill whose request supplies only maxPriorityFeePerGas and
\* an access list, and no gas, has enqueued the base fee query alone.
C28_Witness ==
    /\ fills[1].pc = "executing"
    /\ SuppliedFees = {"maxPriorityFeePerGas"}
    /\ IsSome(FillTx.access_list)
    /\ IsNone(FillTx.gas)
    /\ EnqueuedFeeQueries = {"eth_feeHistory"}

\* How the node answered the call of the method in the fill's batch.
AnswerOf(method) == fills[1].answers[IndexOf(fills[1].queue, method)]

\* The query came back with a result of the expected shape.
Succeeded(method) == AnswerOf(method) \in {"ok", "high"}

\* The quantities the node gave.
FetchedPriority ==
    IF AnswerOf("eth_maxPriorityFeePerGas") = "high" THEN U256Max
    ELSE Answer("eth_maxPriorityFeePerGas").v.n
FetchedBaseFee == Answer("eth_feeHistory").v.baseFeePerGas[2]
FetchedGasPrice == Answer("eth_gasPrice").v.n

\* The fill has got past chain ID, nonce and gas limit.
ReachedPricing ==
    /\ fills[1].pc \in {"returned", "panicked"}
    /\ fills[1].answers /= <<>>
    /\ \A k \in 1..Len(fills[1].queue) :
          fills[1].queue[k] \in {"eth_chainId", "eth_getTransactionCount",
                                 "eth_estimateGas"} => fills[1].answers[k] = "ok"

\* C29 (as claimed): a request supplying no fee field is filled as EIP-1559
\* with maxPriorityFeePerGas the fetched priority fee, maxFeePerGas twice
\* the base fee plus the priority fee and no gasPrice when the base fee and
\* priority fee queries both succeed; when either fails (RPC error,
\* undecodable or malformed result) it is filled with the fetched gas price
\* as a transaction of another type, and fill fails only if the gas price
\* query failed too.
C29_FeeFallback ==
    (ReachedPricing /\ SuppliedFees = {}) =>
        IF Succeeded("eth_feeHistory") /\ Succeeded("eth_maxPriorityFeePerGas")
        THEN /\ FillSucceeded
             /\ FilledInner.type = "Eip1559"
             /\ FilledArgs.max_priority_fee_per_gas = Some(FetchedPriority)
             /\ FilledArgs.max_fee_per_gas = Some(2 * FetchedBaseFee + FetchedPriority)
             /\ IsNone(FilledArgs.gas_price)
        ELSE IF Succeeded("eth_gasPrice")
        THEN /\ FillSucceeded
             /\ FilledInner.type /= "Eip1559"
             /\ FilledArgs.gas_price = Some(FetchedGasPrice)
        ELSE fills[1].pc = "returned" /\ ~Filled.ok

\* C30: the type of the filled transaction is decided by (maxFeePerGas
\* present, accessList present) on the filled request: EIP-1559 when
\* maxFeePerGas is present, with the access list supplied or else empty;
\* otherwise EIP-2930 when an access list is present; otherwise legacy with
\* the chain ID embedded.
C30_TransactionType ==
    FillSucceeded =>
        /\ FilledInner.type \in {"Eip1559", "Eip2930", "Legacy"}
        /\ FilledInner.type =
              IF IsSome(FilledArgs.max_fee_per_gas) THEN "Eip1559"
              ELSE IF IsSome(FilledArgs.access_list) THEN "Eip2930"
              ELSE "Legacy"
        /\ FilledInner.type = "Legacy" =>
              FilledInner.chain_id = Some(Unwrap(FilledArgs.chain_id))
        /\ FilledInner.type /= "Legacy" =>
              FilledInner.access_list =
                  IF IsSome(FilledArgs.access_list)
                  THEN Unwrap(FilledArgs.access_list) ELSE <<>>

\* C30 witness: a request with an access list and no fee field was filled
\* with the gas price, as EIP-2930.
C30_Witness ==
    /\ FillSucceeded
    /\ SuppliedFees = {}
    /\ IsSome(FillTx.access_list)
    /\ FilledInner.type = "Eip2930"

\* The members of a transaction request as documented.
DocumentedFields ==
    {"from", "to", "gas", "gasPrice", "maxFeePerGas", "maxPriorityFeePerGas",
     "value", "data", "nonce", "accessList", "chainId", "type"}

\* The members of the JSON object request i carries as its only parameter.
MembersOf(i) == DOMAIN Unwrap(Elements[i].params).items[1].obj

\* Handling request i has failed to decode its parameters.
DecodeFailedFor(i) ==
    \E k \in 1..Len(log) :
        log[k].for = i /\ log[k].what.message = "failed to deserialize parameters"

\* C26: a transaction request is decoded from the documented members: one
\* that uses only these and has from is accepted, one without from or with
\* any other member is rejected with -32602 (and nothing is signed for it).
C26_DocumentedFields ==
    \A i \in 1..Len(outcomes) :
        (Elements[i].method \in TransactionMethods
            /\ DeserializeTuple(Elements[i].params, <<"object">>)) =>
            IF MembersOf(i) \subseteq DocumentedFields /\ "from" \in MembersOf(i)
            THEN ~DecodeFailedFor(i)
            ELSE /\ DecodeFailedFor(i)
                 /\ outcomes[i].kind = "Internal"
                 /\ ~outcomes[i].response.result.ok
                 /\ outcomes[i].response.result.error.code = -32602
                 /\ NoSignerCall(i)

\* The private keys the Wallet holds, and the addresses they derive.
Keys == {private_keys[i] : i \in 1..AccountCount}
Addresses == {address(key) : key \in Keys}

\* A signature as PrivateKey::sign gives it: it names the signer's address
\* and the digest, and nothing of the key.
IsSignature(value) ==
    /\ DOMAIN value = {"signer", "digest"}
    /\ value.signer \in Addresses

\* The hex string of a local result or of a rewritten request: a signature,
\* or a transaction encoded with its signature.
IsSignedBytes(hex) ==
    \/ IsSignature(hex)
    \/ /\ DOMAIN hex = {"raw", "signature"}
       /\ IsSignature(hex.signature)
       /\ hex.raw \notin Keys

\* A log record holds no key: its fields are the ones the code writes, the
\* signature is a signature, the account an address.
KeyFreeRecord(record) ==
    /\ DOMAIN record \subseteq {"level", "message", "account", "data", "signature", "err"}
    /\ "signature" \in DOMAIN record => IsSignature(record.signature)
    /\ "account" \in DOMAIN record => record.account \in Addresses
    /\ "data" \in DOMAIN record => record.data \notin Keys
    /\ "err" \in DOMAIN record =>
          /\ DOMAIN record.err \subseteq {"kind", "msg", "account"}
          /\ record.err \notin Keys

\* A result that is a list or a hex string (as the local results are: the
\* upstream's are quantities and strings) holds no key: it is the list of
\* the addresses, or signed bytes.
KeyFreeResult(result) ==
    (result.ok /\ result.value.m = "value" /\ result.value.v.t \in {"array", "bytes"}) =>
        IF result.value.v.t = "array"
        THEN \A k \in 1..Len(result.value.v.items) :
                result.value.v.items[k].s \in Addresses
        ELSE IsSignedBytes(result.value.v.hex)

\* A request sent upstream holds no key: its params are the client's, the
\* empty ones of fill's calls, or the signed bytes of a rewritten
\* eth_sendTransaction.
KeyFreeRequest(request) ==
    \/ request.params = None
    \/ request.params = Some(Array(<<>>))
    \/ \E j \in 1..Len(Elements) : request.params = Elements[j].params
    \/ /\ request.method = "eth_sendRawTransaction"
       /\ Len(Unwrap(request.params).items) = 1
       /\ Unwrap(request.params).items[1].v.t = "bytes"
       /\ IsSignedBytes(Unwrap(request.params).items[1].v.hex)

\* The responses of the Output sent back to the client.
OutputResponses ==
    CASE IsNone(output) -> <<>>
      [] Unwrap(output).kind = "Response" -> <<Unwrap(output).response>>
      [] Unwrap(output).kind = "Batch" -> Unwrap(output).responses
      [] OTHER -> <<>>

ComputesMaxFee ==
    /\ ReachedPricing
    /\ Enqueued(fills[1].queue, "eth_feeHistory")
    /\ AnswerOf("eth_feeHistory") = "ok"
    /\ Enqueued(fills[1].queue, "eth_maxPriorityFeePerGas") =>
          Succeeded("eth_maxPriorityFeePerGas")

\* The priority fee the computation uses.
PriorityUsed ==
    IF IsSome(FillTx.max_priority_fee_per_gas) THEN Unwrap(FillTx.max_priority_fee_per_gas)
    ELSE FetchedPriority

\* C31 (as claimed): whenever fill computes maxFeePerGas, the value stored
\* is exactly 2 * base_fee + maxPriorityFeePerGas for every base fee and
\* priority fee the node may return, without wrap-around, and so it is at
\* least base_fee + maxPriorityFeePerGas.
C31_MaxFeeExact ==
    ComputesMaxFee =>
        /\ FillSucceeded
        /\ FilledArgs.max_fee_per_gas = Some(2 * FetchedBaseFee + PriorityUsed)
        /\ Unwrap(FilledArgs.max_fee_per_gas) >= FetchedBaseFee + PriorityUsed

\* The request supplies the member and the filled request holds the same.
Kept(supplied, filled) == IsSome(supplied) => filled = supplied

\* The signed transaction holds the member the request supplies, where its
\* type has the member.
Signed(supplied, member) ==
    (IsSome(supplied) /\ member \in DOMAIN FilledInner) =>
        FilledInner[member] = Unwrap(supplied)

\* C32: fill overwrites no field the request supplies: to, value, data,
\* accessList, gas, gasPrice, maxFeePerGas, maxPriorityFeePerGas, nonce and
\* chainId of the request are those of the filled transaction and of the
\* transaction that is signed; a supplied nonce or chain ID that is not the
\* node's makes fill fail instead.
C32_SuppliedFieldsKept ==
    FillSucceeded =>
        /\ FilledArgs.from = FillTx.from
        /\ FilledArgs.to = FillTx.to /\ FilledInner.to = FillTx.to
        /\ FilledArgs.value = FillTx.value /\ FilledInner.value = FillTx.value
        /\ FilledArgs.data = FillTx.data /\ FilledInner.data = FillTx.data
        /\ FilledArgs.access_list = FillTx.access_list
        /\ Kept(FillTx.gas, FilledArgs.gas)
        /\ Kept(FillTx.gas_price, FilledArgs.gas_price)
        /\ Kept(FillTx.max_fee_per_gas, FilledArgs.max_fee_per_gas)
        /\ Kept(FillTx.max_priority_fee_per_gas, FilledArgs.max_priority_fee_per_gas)
        /\ Kept(FillTx.nonce, FilledArgs.nonce)
        /\ Kept(FillTx.chain_id, FilledArgs.chain_id)
        /\ IsSome(FillTx.access_list) =>
              /\ FilledInner.type /= "Legacy"
              /\ FilledInner.access_list = Unwrap(FillTx.access_list)
        /\ Signed(FillTx.gas, "gas_limit")
        /\ IsSome(FillTx.gas_price) =>
              FilledInner.type /= "Eip1559" /\ FilledInner.gas_price = Unwrap(FillTx.gas_price)
        /\ IsSome(FillTx.max_fee_per_gas) =>
              /\ FilledInner.type = "Eip1559"
              /\ FilledInner.max_fee_per_gas = Unwrap(FillTx.max_fee_per_gas)
        /\ IsSome(FillTx.max_priority_fee_per_gas) =>
              /\ FilledInner.type = "Eip1559"
              /\ FilledInner.max_priority_fee_per_gas = Unwrap(FillTx.max_priority_fee_per_gas)
        /\ Signed(FillTx.nonce, "nonce")
        /\ IsSome(FillTx.chain_id) =>
              FilledInner.chain_id = IF FilledInner.type = "Legacy" THEN FillTx.chain_id
                                     ELSE Unwrap(FillTx.chain_id)

\* C32 witness: a request supplying to, value, data, nonce, chain ID, gas
\* and maxPriorityFeePerGas was filled with the base fee the node gave.
C32_Witness ==
    /\ FillSucceeded
    /\ IsSome(FillTx.to) /\ IsSome(FillTx.nonce) /\ IsSome(FillTx.chain_id)
    /\ IsSome(FillTx.gas)
    /\ SuppliedFees = {"maxPriorityFeePerGas"}
    /\ FillTx.value = 1
    /\ IsSome(FilledArgs.max_fee_per_gas)

\* The batch of SpecEth, and the responses its execute_many decoded.
TheBatch == fills[1]
BatchResponses ==
    IF IsSome(TheBatch.executed) /\ Unwrap(TheBatch.executed).ok
    THEN Unwrap(TheBatch.executed).value ELSE <<>>

\* The places in the reply of the responses that carry the id of the
\* request the handle's call enqueued.
Matching(handle) ==
    {j \in 1..Len(BatchResponses) :
        BatchResponses[j].id = TheBatch.queue[handle.slot].id}

\* C33 (as claimed): a handle of an enqueued call does not resolve before
\* execute(); afterwards it resolves with the response that carries the id
\* of its request, wherever that response stands in the reply and however
\* many responses the reply holds, and with an error when the reply holds
\* no such response: never with the response to another request.
C33_HandlesCorrelated ==
    \A h \in 1..Len(TheBatch.handles) :
        LET handle == TheBatch.handles[h]
        IN (handle.slot > 0 /\ IsSome(handle.resolved)) =>
              /\ TheBatch.pc = "executed"
              /\ IF Matching(handle) = {}
                 THEN ~Unwrap(handle.resolved).ok
                 ELSE \E j \in Matching(handle) :
                         Unwrap(handle.resolved) = HandleOutput(ChannelSent(BatchResponses[j]))

\* A call of chain_id that starts in the step finds the cache as it is: it
\* takes the value the cache holds and enqueues nothing, or, the cache being
\* empty, enqueues an eth_chainId request.
StartsMemoized(handle) ==
    IF IsSome(chain_id_cache)
    THEN /\ handle.slot = 0
         /\ handle.seen = chain_id_cache
         /\ fills'[1].queue = fills[1].queue
    ELSE /\ handle.slot > 0
         /\ fills'[1].queue[handle.slot].method = "eth_chainId"

\* A call of chain_id that ends in the step: one that found a value returns
\* it and sends nothing; one that fetched stores what it fetched, and
\* nothing when the fetch failed.
EndsMemoized(seen, result) ==
    IF IsSome(seen)
    THEN /\ result = Ok(Unwrap(seen))
         /\ upstream' = upstream
         /\ chain_id_cache' = chain_id_cache
    ELSE chain_id_cache' = IF result.ok THEN Some(result.value) ELSE chain_id_cache

\* C38: chain_id is memoized: a call of Eth::chain_id or Batch::chain_id
\* that starts while the cache holds a value returns that value and issues
\* no eth_chainId request; a call that starts on an empty cache fetches, a
\* fetch that succeeds stores its value and one that fails stores nothing,
\* so that the next call fetches again.
C38_ChainIdMemoized ==
    [][/\ \A h \in 1..Len(fills'[1].handles) :
             fills'[1].handles[h].method = "eth_chainId" =>
                IF h > Len(fills[1].handles)
                THEN StartsMemoized(fills'[1].handles[h])
                ELSE (IsNone(fills[1].handles[h].resolved)
                         /\ IsSome(fills'[1].handles[h].resolved)) =>
                        EndsMemoized(fills[1].handles[h].seen,
                                     Unwrap(fills'[1].handles[h].resolved))
       /\ \A d \in 1..Len(fills'[1].direct) :
             IF d > Len(fills[1].direct)
             THEN fills'[1].direct[d].seen = chain_id_cache
             ELSE (IsNone(fills[1].direct[d].result)
                      /\ IsSome(fills'[1].direct[d].result)) =>
                     /\ EndsMemoized(fills[1].direct[d].seen,
                                     Unwrap(fills'[1].direct[d].result))
                     /\ fills'[1].direct[d].requested = IsNone(fills[1].direct[d].seen)
                     /\ IsNone(fills[1].direct[d].seen) =>
                           /\ Len(upstream') = Len(upstream) + 1
                           /\ upstream'[Len(upstream')].what.requests[1].method = "eth_chainId"]_vars

\* C38 witness: a direct call failed to fetch, the next one fetched and
\* stored the chain ID, and a handle of Batch::chain_id taken afterwards
\* resolved from the cache.
C38_Witness ==
    /\ \E d \in 1..Len(TheBatch.direct) :
          TheBatch.direct[d].requested /\ ~Unwrap(TheBatch.direct[d].result).ok
    /\ \E d \in 1..Len(TheBatch.direct) :
          TheBatch.direct[d].requested /\ Unwrap(TheBatch.direct[d].result).ok
    /\ \E h \in 1..Len(TheBatch.handles) :
          TheBatch.handles[h].slot = 0 /\ IsSome(TheBatch.handles[h].resolved)
    /\ Len(upstream) = 2

\* The messages of the records LogRecorder writes.
SignedMessages == {"signed message", "signed transaction", "signed typed data"}

\* The 'signed ...' records written, and the signatures made, for request i.
SignedRecords(i) ==
    SelectSeq(log, LAMBDA record :
        record.for = i /\ record.what.message \in SignedMessages)
SignaturesFor(i) == SelectSeq(signatures, LAMBDA signature : signature.for = i)

\* Request i was classified with a signature in what will leave the proxy:
\* in its response, or in the raw transaction to forward.
CarriesSignature(i) ==
    /\ Elements[i].method \in SigningMethods
    /\ outcomes[i].kind = "Internal" => outcomes[i].response.result.ok

CarriedSignature(i) ==
    CASE outcomes[i].kind = "Remote" ->
            Unwrap(outcomes[i].request.params).items[1].v.hex.signature
      [] Elements[i].method = "eth_signTransaction" ->
            outcomes[i].response.result.value.v.hex.signature
      [] OTHER -> outcomes[i].response.result.value.v.hex

\* The records and signatures of the requests, one to one.
SignedIffLogged ==
    \A i \in 1..Len(Elements) :
        /\ Len(SignedRecords(i)) = Len(SignaturesFor(i))
        /\ \A k \in 1..Len(SignedRecords(i)) :
              /\ SignedRecords(i)[k].what.signature = SignaturesFor(i)[k].what
              /\ SignedRecords(i)[k].what.account \in Addresses
              /\ SignedRecords(i)[k].what.account = SignaturesFor(i)[k].what.signer
        /\ Vetoed(i) => SignedRecords(i) = <<>>
        /\ (HasFrom(Elements[i]) /\ From(Elements[i]) \notin Addresses) =>
              SignedRecords(i) = <<>>

\* A step in which the response is handed to the client or the forwarding
\* call is made.
Leaving ==
    /\ pc' /= "idle"
    /\ \/ output' /= output
       \/ /\ Len(upstream') > Len(upstream)
          /\ upstream'[Len(upstream')].for = 0

\* C34: a 'signed ...' record is written for a signing attempt exactly when
\* the attempt produced a signature, and it holds that signature: none for
\* an unknown signer, none for an attempt the Validator vetoed.  The record
\* is there when the request is classified, before the response or the raw
\* transaction to forward leaves, and no such record is written afterwards.
C34_SignedLogged ==
    [](/\ SignedIffLogged
       /\ \A k \in 1..Len(log) :
             log[k].what.message \in SignedMessages => log[k].for \in 1..Len(outcomes)
       /\ \A i \in 1..Len(outcomes) :
             CarriesSignature(i) =>
                /\ Len(SignedRecords(i)) = 1
                /\ SignedRecords(i)[1].what.signature = CarriedSignature(i)
       /\ pc = "done" =>
             \A k \in 1..Len(signatures) : SignedRecords(signatures[k].for) /= <<>>)
    /\ [][Leaving => \A i \in 1..Len(Elements) : SignedRecords(i)' = SignedRecords(i)]_vars

\* C34 witness: behind the Validator, one request of a batch was vetoed and
\* the other signed and logged, and the batch was answered.
C34_Witness ==
    /\ validator
    /\ pc = "done"
    /\ input.kind = "Batch"
    /\ \E i \in 1..Len(outcomes) : Vetoed(i)
    /\ \E i \in 1..Len(outcomes) : Len(SignedRecords(i)) = 1
    /\ IsSome(output)

\* The calls whose validation is under way: they hold the guard of the
\* engine, and their hook may be running.
Validating == {c \in 1..MaxValidations : fills[c].pc \in {"locked", "running"}}

\* C35: at most one policy validation runs at any time: the hook calls of
\* signing requests that reach the Validator together never overlap, the
\* call that validates holds the mutex, and every call that waits for the
\* mutex gets its validation in the end, the hooks returning.
C35_OneValidation ==
    /\ [](/\ Cardinality(Validating) <= 1
          /\ \A c \in Validating : lua = Some(c)
          /\ Validating = {} => lua = None)
    /\ \A c \in 1..MaxValidations :
          (fills[c].pc = "waiting") ~> (fills[c].pc \in {"validated", "vetoed", "done"})

\* C35 witness: a call waits for the mutex while another is inside its
\* hook.
C35_Witness ==
    /\ fills[1].pc = "waiting"
    /\ fills[2].pc = "running"
    /\ lua = Some(2)

\* The requests classified as remote-bound, in the order of their elements.
RemoteBound == SelectSeq(outcomes, LAMBDA outcome : outcome.kind = "Remote")

\* The handler has finished with the payload, by returning or by unwinding.
Finished == pc \in {"done", "panicked"}

\* C36 (as claimed): for every client batch the upstream batch call is made
\* exactly once: not before every element is classified, carrying exactly
\* the remote-bound requests (those passed through and the rewritten
\* eth_sendTransaction ones) in the order of their elements, and never a
\* second time.
C36_ForwardedOnce ==
    input.kind = "Batch" =>
        /\ Len(ForwardingCalls) <= 1
        /\ Finished => Len(ForwardingCalls) = 1
        /\ \A k \in 1..Len(upstream) :
              upstream[k].for = 0 =>
                 /\ Len(outcomes) = Len(Elements)
                 /\ \A j \in 1..Len(upstream) : upstream[j].for /= 0 => j < k
                 /\ upstream[k].what.kind = "execute_many"
                 /\ Len(upstream[k].what.requests) = Len(RemoteBound)
                 /\ \A j \in 1..Len(RemoteBound) :
                       upstream[k].what.requests[j] = RemoteBound[j].request
        /\ \A i \in 1..Len(outcomes) :
              outcomes[i].kind = "Remote" =>
                 /\ outcomes[i].request.id = Elements[i].id
                 /\ IF Elements[i].method = "eth_sendTransaction"
                    THEN outcomes[i].request.method = "eth_sendRawTransaction"
                    ELSE outcomes[i].request = Elements[i]

\* C37 (as claimed): a batch whose elements are all answered locally causes
\* no HTTP call to the upstream for forwarding.
C37_LocalBatchNotForwarded ==
    (input.kind = "Batch" /\ Len(outcomes) = Len(Elements)
        /\ \A i \in 1..Len(outcomes) : outcomes[i].kind = "Internal") =>
        ForwardingCalls = <<>>

\* C39 (as claimed): fill ends with a filled transaction or with an error
\* value and never panics, whatever the decodable request and whatever the
\* node answers to the calls of the batch, a fee history of fewer than two
\* base fees included.
C39_FillNeverPanics ==
    /\ fills[1].pc /= "panicked"
    /\ fills[1].pc = "returned" =>
          /\ IsSome(fills[1].filled)
          /\ ~IsPanic(Unwrap(fills[1].filled))
====
